---------------------------- MODULE Spec2Model ----------------------------
(***************************************************************************)
(* Model of the GitHub repository summarizer: the path filter, the         *)
(* priority ranker and budget selector (app/utils/file_filter.py), the     *)
(* two tree renderers, the LLM response validation and the fetch pipeline  *)
(* of GitHubClient.fetch_repo_data.                                        *)
(*                                                                         *)
(* Python strings are TLA+ strings; a character is a string of length 1.   *)
(***************************************************************************)
EXTENDS Integers, Sequences, FiniteSets, TLC

VARIABLES
    called,        \* the operations the harness has applied to its inputs
    in_files,      \* rank_and_select_files: the argument files
    in_max_chars,  \* rank_and_select_files: the argument max_chars
    out_selected,  \* rank_and_select_files: the returned list
    in_path,       \* should_exclude_path / get_file_priority: the argument
    out_excluded,  \* the value returned by should_exclude_path(in_path)
    out_priority,  \* the value returned by get_file_priority(in_path)
    in_paths,      \* build_directory_tree / build_tree_string: the argument
    out_tree,      \* the text returned by GitHubClient.build_directory_tree
    out_tree_v1,   \* the text returned by the v1 build_tree_string
    in_api_key,    \* Summarizer: whether settings.openai_api_key is set
    in_reply,      \* Summarizer.summarize: what the chat completion call did
    out_summary,   \* Summarizer.summarize: how the call ended
    pc,               \* per request: the awaited call, "idle" or "done"
    tree_items,       \* per request: the tree listing GitHub returned
    directory_tree,   \* per request: fetch_repo_data's directory_tree
    content_budget,   \* per request: fetch_repo_data's content_budget
    selected_files,   \* per request: fetch_repo_data's selected_files
    fetch_idx,        \* per request: position of the fetch loop
    file_contents,    \* per request: the content mapping, in insertion order
    failed_downloads, \* per request: fetch_repo_data's failed_downloads
    calls,            \* per request: the outgoing calls made so far
    response,         \* per request: the response of summarize_repo
    request_body,     \* per request: the body the endpoint was sent
    repo_ref,         \* per request: owner and repo from parse_github_url
    fetch_result      \* per request: how the call of fetch_repo_data ended

selectVars == << in_files, in_max_chars, out_selected >>

pathVars == << in_path, out_excluded, out_priority >>

treeVars == << in_paths, out_tree, out_tree_v1 >>

llmVars == << in_api_key, in_reply, out_summary >>

harnessVars == << called, selectVars, pathVars, treeVars, llmVars >>

pipeVars ==
    << pc, tree_items, directory_tree, content_budget, selected_files,
       fetch_idx, file_contents, failed_downloads, calls, response,
       request_body, repo_ref, fetch_result >>

vars == << harnessVars, pipeVars >>

(***************************************************************************)
(* Python str operations used by the source.                               *)
(***************************************************************************)
CharAt(s, i) == SubSeq(s, i, i)

\* The characters that occur in the modelled paths, in code point order.
Ascii == "-./0123456789ABCDEFGHIJKLMNOPQRSTUVWXYZ_abcdefghijklmnopqrstuvwxyz"

UpperLetters == "ABCDEFGHIJKLMNOPQRSTUVWXYZ"

LowerLetters == "abcdefghijklmnopqrstuvwxyz"

\* Position of character c in the string alphabet, 0 when absent.
IndexIn(alphabet, c) ==
    IF \E i \in 1..Len(alphabet) : CharAt(alphabet, i) = c
    THEN CHOOSE i \in 1..Len(alphabet) : CharAt(alphabet, i) = c
    ELSE 0

AsciiChars == { CharAt(Ascii, i) : i \in 1..Len(Ascii) }

\* ord(c), up to an order-preserving renumbering of the code points.
OrdTable == [c \in AsciiChars |-> IndexIn(Ascii, c)]

Ord(c) == OrdTable[c]

LowerTable ==
    [c \in AsciiChars |->
        IF IndexIn(UpperLetters, c) = 0 THEN c
        ELSE CharAt(LowerLetters, IndexIn(UpperLetters, c))]

UpperTable ==
    [c \in AsciiChars |->
        IF IndexIn(LowerLetters, c) = 0 THEN c
        ELSE CharAt(UpperLetters, IndexIn(LowerLetters, c))]

RECURSIVE StrLowerFrom(_, _)
StrLowerFrom(s, i) ==
    IF i > Len(s) THEN ""
    ELSE LowerTable[CharAt(s, i)] \o StrLowerFrom(s, i + 1)

\* str.lower()
StrLower(s) == StrLowerFrom(s, 1)

RECURSIVE StrUpperFrom(_, _)
StrUpperFrom(s, i) ==
    IF i > Len(s) THEN ""
    ELSE UpperTable[CharAt(s, i)] \o StrUpperFrom(s, i + 1)

\* str.upper()
StrUpper(s) == StrUpperFrom(s, 1)

\* str.startswith(p)
StartsWith(s, p) == Len(s) >= Len(p) /\ SubSeq(s, 1, Len(p)) = p

\* str.endswith(p)
EndsWith(s, p) ==
    Len(s) >= Len(p) /\ SubSeq(s, Len(s) - Len(p) + 1, Len(s)) = p

\* sub in s
Contains(s, sub) ==
    \E i \in 1..(Len(s) - Len(sub) + 1) : SubSeq(s, i, i + Len(sub) - 1) = sub

\* s.rfind(c) for a single character c, as a 1-based position; 0 models -1.
RFind(s, c) ==
    IF \E i \in 1..Len(s) : CharAt(s, i) = c
    THEN CHOOSE i \in 1..Len(s) :
            /\ CharAt(s, i) = c
            /\ \A j \in (i + 1)..Len(s) : CharAt(s, j) # c
    ELSE 0

\* s.count(c) for a single character c
Count(s, c) == Cardinality({i \in 1..Len(s) : CharAt(s, i) = c})

RECURSIVE SplitFrom(_, _, _)
\* The segments of s from position i on, cur being the segment under way.
SplitFrom(s, i, cur) ==
    IF i > Len(s) THEN <<cur>>
    ELSE IF CharAt(s, i) = "/" THEN <<cur>> \o SplitFrom(s, i + 1, "")
    ELSE SplitFrom(s, i + 1, cur \o CharAt(s, i))

\* path.split("/")
Split(s) == SplitFrom(s, 1, "")

RECURSIVE Join(_)
\* "/".join(parts)
Join(parts) ==
    IF Len(parts) = 0 THEN ""
    ELSE IF Len(parts) = 1 THEN parts[1]
    ELSE parts[1] \o "/" \o Join(Tail(parts))

RECURSIVE StrLess(_, _)
\* a < b on Python strings (lexicographic by code point)
StrLess(a, b) ==
    IF Len(b) = 0 THEN FALSE
    ELSE IF Len(a) = 0 THEN TRUE
    ELSE IF CharAt(a, 1) = CharAt(b, 1)
         THEN StrLess(SubSeq(a, 2, Len(a)), SubSeq(b, 2, Len(b)))
         ELSE Ord(CharAt(a, 1)) < Ord(CharAt(b, 1))

(***************************************************************************)
(* app/utils/file_filter.py: constants.                                    *)
(***************************************************************************)
PRIORITY_TIER1 == 1

PRIORITY_TIER2 == 2

PRIORITY_TIER3 == 3

PRIORITY_TIER4 == 4

PRIORITY_SKIP == 99

EXCLUDED_DIRS ==
    { "node_modules", "vendor", ".git", "dist", "build", "__pycache__",
      ".venv", "venv", "env", ".idea", ".vscode", ".tox", ".mypy_cache",
      ".pytest_cache", ".next", ".nuxt", "target", "bin", "obj",
      "coverage", ".coverage", "htmlcov", ".eggs", ".gradle",
      ".terraform", ".serverless" }

EXCLUDED_EXTENSIONS ==
    { ".png", ".jpg", ".jpeg", ".gif", ".ico", ".svg", ".bmp", ".webp",
      ".woff", ".woff2", ".ttf", ".eot", ".otf",
      ".mp3", ".mp4", ".avi", ".mov", ".wav",
      ".zip", ".tar", ".gz", ".bz2", ".rar", ".7z",
      ".pdf", ".doc", ".docx", ".xls", ".xlsx",
      ".exe", ".dll", ".so", ".dylib", ".pyc", ".pyo", ".class", ".o",
      ".wasm",
      ".sqlite", ".db",
      ".map" }

EXCLUDED_FILENAMES ==
    { "package-lock.json", "yarn.lock", "poetry.lock", "Cargo.lock",
      "Gemfile.lock", "composer.lock", "go.sum", "pnpm-lock.yaml",
      "npm-shrinkwrap.json", ".DS_Store", "Thumbs.db" }

TIER1_FILENAMES == { "README.md", "README.rst", "README.txt", "README" }

TIER2_FILENAMES ==
    { "package.json", "pyproject.toml", "setup.py", "setup.cfg",
      "Cargo.toml", "go.mod", "pom.xml", "build.gradle", "build.gradle.kts",
      "Makefile", "CMakeLists.txt", "Dockerfile", "docker-compose.yml",
      "docker-compose.yaml", "requirements.txt", "Gemfile", "Pipfile",
      "tsconfig.json", "tox.ini", ".eslintrc.json", ".eslintrc.js",
      "webpack.config.js", "vite.config.ts", "vite.config.js",
      "next.config.js", "next.config.mjs" }

TIER2_DIR_PATTERNS == << ".github/workflows/" >>

TIER3_ENTRY_POINTS ==
    { "main.py", "app.py", "index.ts", "index.js", "main.ts", "main.js",
      "server.py", "server.ts", "server.js", "main.go", "main.rs",
      "lib.rs", "mod.rs", "index.py" }

SOURCE_EXTENSIONS ==
    { ".py", ".js", ".ts", ".jsx", ".tsx", ".go", ".rs", ".java",
      ".kt", ".rb", ".php", ".c", ".cpp", ".h", ".hpp", ".cs",
      ".swift", ".scala", ".clj", ".ex", ".exs", ".hs", ".lua",
      ".r", ".R", ".jl", ".sh", ".bash", ".zsh", ".fish",
      ".yaml", ".yml", ".toml", ".json", ".xml", ".html", ".css",
      ".scss", ".less", ".sql", ".graphql", ".proto", ".tf",
      ".md", ".rst", ".txt" }

(***************************************************************************)
(* app/utils/file_filter.py: should_exclude_path.                          *)
(***************************************************************************)
\* parts[-1]
Filename(path) == Split(path)[Len(Split(path))]

\* filename[dot_idx:].lower() if dot_idx != -1 else ""
LowerExt(filename) ==
    IF RFind(filename, ".") = 0 THEN ""
    ELSE StrLower(SubSeq(filename, RFind(filename, "."), Len(filename)))

\* should_exclude_path comparing the extension without lower-casing it.
should_exclude_path_ext_case_sensitive(path) ==
    LET parts == Split(path)
        filename == parts[Len(parts)]
    IN  \/ \E i \in 1..(Len(parts) - 1) : parts[i] \in EXCLUDED_DIRS
        \/ filename \in EXCLUDED_FILENAMES
        \/ /\ RFind(filename, ".") # 0
           /\ SubSeq(filename, RFind(filename, "."), Len(filename))
                 \in EXCLUDED_EXTENSIONS
        \/ EndsWith(filename, ".min.js")
        \/ EndsWith(filename, ".min.css")
        \/ Contains(filename, ".chunk.")

should_exclude_path(path) ==
    LET parts == Split(path)
        filename == parts[Len(parts)]
    IN  \/ \E i \in 1..(Len(parts) - 1) : parts[i] \in EXCLUDED_DIRS
        \/ filename \in EXCLUDED_FILENAMES
        \/ /\ RFind(filename, ".") # 0
           /\ LowerExt(filename) \in EXCLUDED_EXTENSIONS
        \/ EndsWith(filename, ".min.js")
        \/ EndsWith(filename, ".min.css")
        \/ Contains(filename, ".chunk.")

(***************************************************************************)
(* app/utils/file_filter.py: get_file_priority.                            *)
(***************************************************************************)
\* The test-file heuristics of lines 146-156.
IsTestPath(path) ==
    LET filename == Filename(path)
        lower_path == StrLower(path)
    IN  \/ Contains(lower_path, "/test")
        \/ Contains(lower_path, "/tests")
        \/ Contains(lower_path, "/spec")
        \/ StartsWith(filename, "test_")
        \/ EndsWith(filename, "_test.py")
        \/ EndsWith(filename, ".test.js")
        \/ EndsWith(filename, ".test.ts")
        \/ EndsWith(filename, ".spec.js")
        \/ EndsWith(filename, ".spec.ts")

\* get_file_priority without the test-file tier.
get_file_priority_no_test_tier(path) ==
    LET filename == Filename(path)
    IN  IF StartsWith(StrUpper(filename), "README") THEN PRIORITY_TIER1
        ELSE IF filename \in TIER2_FILENAMES THEN PRIORITY_TIER2
        ELSE IF \E k \in 1..Len(TIER2_DIR_PATTERNS) :
                    StartsWith(path, TIER2_DIR_PATTERNS[k])
             THEN PRIORITY_TIER2
        ELSE IF /\ LowerExt(filename) \notin SOURCE_EXTENSIONS
                /\ filename \notin TIER3_ENTRY_POINTS
             THEN PRIORITY_SKIP
        ELSE PRIORITY_TIER3

get_file_priority(path) ==
    LET filename == Filename(path)
    IN  IF StartsWith(StrUpper(filename), "README") THEN PRIORITY_TIER1
        ELSE IF filename \in TIER2_FILENAMES THEN PRIORITY_TIER2
        ELSE IF \E k \in 1..Len(TIER2_DIR_PATTERNS) :
                    StartsWith(path, TIER2_DIR_PATTERNS[k])
             THEN PRIORITY_TIER2
        ELSE IF /\ LowerExt(filename) \notin SOURCE_EXTENSIONS
                /\ filename \notin TIER3_ENTRY_POINTS
             THEN PRIORITY_SKIP
        ELSE IF IsTestPath(path) THEN PRIORITY_TIER4
        ELSE PRIORITY_TIER3

(***************************************************************************)
(* Bounds and input pools.                                                 *)
(***************************************************************************)
\* Longest list of entries handed to rank_and_select_files.
MaxFiles == 3

\* Entry paths of the selection runs: a README, an entry point, source
\* files at two depths, two paths with the same key, an excluded path and a
\* Skip path.
SelectPaths ==
    { "README.md", "src/app.py", "utils.py", "src/utils.py",
      "src/helpers.py", "node_modules/foo.js", "LICENSE" }

\* Entry sizes of the selection runs (blob sizes are non-negative).
Sizes == { 0, 300, 600 }

\* max_chars values of the selection runs: the caller passes a budget that
\* is never negative (github_client.py line 153).
Budgets == { 0, 500, 900 }

FileEntries == [path : SelectPaths, size : Sizes]

\* Lists of at most n entries with pairwise distinct paths, as in a git tree.
FileLists(n) ==
    UNION { { l \in [1..k -> FileEntries] :
                \A i, j \in 1..k : i # j => l[i].path # l[j].path }
            : k \in 0..n }

\* Directory prefixes and file names the path functions are applied to.
DirPrefixes ==
    { "", "src/", "tests/", "node_modules/", "node_modules/express/",
      "Node_Modules/", "src/build/", "dist/", ".github/workflows/",
      "src/testing/", "lib/spec/", "docs/" }

FileNames ==
    { "README.md", "README", "readme.txt", "README_old.bak", "package.json",
      "Makefile", "main.py", "app.py", "utils.py", "test_app.py",
      "app_test.py", "app.test.js", "special.py", "testing.py", "logo.png", "LOGO.PNG",
      "app.min.js", "main.min.css", "vendor.chunk.js", "package-lock.json",
      "Package-Lock.json", "LICENSE", "build", "node_modules", "ci.yml",
      "archive.tar.gz", "index.js", "notes" }

PathPool == { d \o f : d \in DirPrefixes, f \in FileNames }

(***************************************************************************)
(* The path functions are pure: their values on the paths of the pools are *)
(* computed once and looked up afterwards.                                 *)
(***************************************************************************)
KnownPaths == SelectPaths \cup PathPool

ExcludedOf == [p \in KnownPaths |-> should_exclude_path(p)]

PriorityOf == [p \in KnownPaths |-> get_file_priority(p)]

\* should_exclude_path(p), looked up when p is a known path.
IsExcluded(p) ==
    IF p \in KnownPaths THEN ExcludedOf[p] ELSE should_exclude_path(p)

\* get_file_priority(p), looked up when p is a known path.
PriorityTier(p) ==
    IF p \in KnownPaths THEN PriorityOf[p] ELSE get_file_priority(p)

(***************************************************************************)
(* app/utils/file_filter.py: _sort_key and rank_and_select_files.          *)
(* A file entry is a record [path, size].                                  *)
(***************************************************************************)
\* The sort key without the entry-point flag (a plausible slip).
sort_key_no_entry_flag(file_info) ==
    << PriorityTier(file_info.path), 0,
       Count(file_info.path, "/"), file_info.size >>

_sort_key(file_info) ==
    LET path == file_info.path
        priority == PriorityTier(path)
        depth == Count(path, "/")
        size == file_info.size
        filename == Filename(path)
        is_entry == IF filename \in TIER3_ENTRY_POINTS THEN 0 ELSE 1
    IN  << priority, is_entry, depth, size >>

\* _sort_key on the entries of the selection runs, computed once.
SortKeyOf == [f \in FileEntries |-> _sort_key(f)]

\* _sort_key(f), looked up when f is a known entry.
SortKey(f) == IF f \in FileEntries THEN SortKeyOf[f] ELSE _sort_key(f)

\* Python's tuple comparison a < b on 4-tuples of integers.
KeyLess(a, b) ==
    \E i \in 1..4 : a[i] < b[i] /\ \A j \in 1..(i - 1) : a[j] = b[j]

RECURSIVE Decorate(_, _)
\* list.sort computes the key of every element once: the first n elements
\* of l, each paired with its key.
Decorate(l, n) ==
    IF n = 0 THEN <<>>
    ELSE Append(Decorate(l, n - 1), << SortKey(l[n]), l[n] >>)

\* One insertion of the stable sort: the pair d goes after every pair whose
\* key is not greater than its own, so equal keys keep their order.
InsertByKey(sorted, d) ==
    LET later == {i \in 1..Len(sorted) : KeyLess(d[1], sorted[i][1])}
        pos == IF later = {} THEN Len(sorted) + 1
               ELSE CHOOSE i \in later : \A j \in later : i <= j
    IN  SubSeq(sorted, 1, pos - 1) \o <<d>> \o SubSeq(sorted, pos, Len(sorted))

RECURSIVE SortPrefix(_, _)
\* The first n pairs of dl, sorted stably by key.
SortPrefix(dl, n) ==
    IF n = 0 THEN <<>> ELSE InsertByKey(SortPrefix(dl, n - 1), dl[n])

\* eligible.sort(key=_sort_key)
SortByKey(l) ==
    LET dl == Decorate(l, Len(l))
        sorted == SortPrefix(dl, Len(dl))
    IN  [i \in 1..Len(sorted) |-> sorted[i][2]]

\* The exclusion filter cut short at the first excluded entry.
ExcludeFilterStopAtFirst(l) ==
    LET bad == {i \in 1..Len(l) : IsExcluded(l[i].path)}
    IN  IF bad = {} THEN l
        ELSE SubSeq(l, 1, (CHOOSE i \in bad : \A j \in bad : i <= j) - 1)

\* [f for f in files if not should_exclude_path(f["path"])]
ExcludeFilter(l) ==
    SelectSeq(l, LAMBDA f : ~IsExcluded(f.path))

\* The tier filter left out.
SkipFilterMissing(l) == l

\* [f for f in eligible if get_file_priority(f["path"]) != PRIORITY_SKIP]
SkipFilter(l) ==
    SelectSeq(l, LAMBDA f : PriorityTier(f.path) # PRIORITY_SKIP)

\* The sorted eligible list the selection loop walks.
Eligible(files_in) == SortByKey(SkipFilter(ExcludeFilter(files_in)))

\* The acceptance test with the budget check dropped.
AcceptsAlways(total_chars, estimated_chars, budget, chosen) == TRUE

\* The acceptance test without the "and selected" escape.
AcceptsOnlyWithinBudget(total_chars, estimated_chars, budget, chosen) ==
    total_chars + estimated_chars <= budget

\* The acceptance test with >= for >: an entry that fills the budget exactly
\* is skipped.
AcceptsStrictlyBelowBudget(total_chars, estimated_chars, budget, chosen) ==
    ~(total_chars + estimated_chars >= budget /\ chosen # <<>>)

\* The negation of the `continue` condition of line 201.
Accepts(total_chars, estimated_chars, budget, chosen) ==
    ~(total_chars + estimated_chars > budget /\ chosen # <<>>)

RECURSIVE SelectLoopStopsAtRejection(_, _, _, _, _)
\* The loop with `break` in place of `continue`: the first rejection ends
\* the walk.
SelectLoopStopsAtRejection(eligible, i, chosen, total_chars, budget) ==
    IF i > Len(eligible) THEN chosen
    ELSE LET f == eligible[i]
             estimated_chars == f.size
         IN  IF Accepts(total_chars, estimated_chars, budget, chosen)
             THEN SelectLoopStopsAtRejection(eligible, i + 1,
                      Append(chosen, f), total_chars + estimated_chars,
                      budget)
             ELSE chosen

RECURSIVE SelectLoop(_, _, _, _, _)
\* The for loop of lines 199-204 from index i on.
SelectLoop(eligible, i, chosen, total_chars, budget) ==
    IF i > Len(eligible) THEN chosen
    ELSE LET f == eligible[i]
             estimated_chars == f.size
         IN  IF Accepts(total_chars, estimated_chars, budget, chosen)
             THEN SelectLoop(eligible, i + 1, Append(chosen, f),
                             total_chars + estimated_chars, budget)
             ELSE SelectLoop(eligible, i + 1, chosen, total_chars, budget)

rank_and_select_files(files_in, budget) ==
    SelectLoop(Eligible(files_in), 1, <<>>, 0, budget)

(***************************************************************************)
(* The tree renderers: GitHubClient.build_directory_tree                   *)
(* (app/services/github_client.py) and build_tree_string (v1 main.py).     *)
(***************************************************************************)
RECURSIVE JoinLines(_)
\* "\n".join(lines)
JoinLines(lines) ==
    IF Len(lines) = 0 THEN ""
    ELSE IF Len(lines) = 1 THEN lines[1]
    ELSE LET half == Len(lines) \div 2
         IN  JoinLines(SubSeq(lines, 1, half)) \o "\n"
                 \o JoinLines(SubSeq(lines, half + 1, Len(lines)))

RECURSIVE Repeat(_, _)
\* s * n
Repeat(s, n) == IF n <= 0 THEN "" ELSE s \o Repeat(s, n - 1)

\* One insertion of sorted(): p goes after every string that is not greater.
InsertStr(sorted, p) ==
    LET later == {i \in 1..Len(sorted) : StrLess(p, sorted[i])}
        pos == IF later = {} THEN Len(sorted) + 1
               ELSE CHOOSE i \in later : \A j \in later : i <= j
    IN  SubSeq(sorted, 1, pos - 1) \o <<p>> \o SubSeq(sorted, pos, Len(sorted))

RECURSIVE SortedPrefix(_, _)
SortedPrefix(l, n) ==
    IF n = 0 THEN <<>> ELSE InsertStr(SortedPrefix(l, n - 1), l[n])

\* The paths walked in the order given, without sorted().
Unsorted(l) == l

\* sorted(paths)
Sorted(l) == SortedPrefix(l, Len(l))

RECURSIVE ParentLines(_, _, _)
\* The inner loop of build_directory_tree (lines 59-64) from index i on
\* (i counts from 1 here, from 0 in the source); acc holds seen_dirs and
\* result_lines.
ParentLines(parts, i, acc) ==
    IF i > Len(parts) - 1 THEN acc
    ELSE LET dir_path == Join(SubSeq(parts, 1, i))
         IN  IF dir_path \notin acc.seen_dirs
             THEN ParentLines(parts, i + 1,
                    [seen_dirs |-> acc.seen_dirs \cup {dir_path},
                     result_lines |->
                        Append(acc.result_lines,
                               Repeat("  ", i - 1) \o parts[i] \o "/")])
             ELSE ParentLines(parts, i + 1, acc)

RECURSIVE TreeLoop(_, _, _)
\* The outer loop of build_directory_tree (lines 56-67) from index n on.
TreeLoop(sorted_paths, n, acc) ==
    IF n > Len(sorted_paths) THEN acc
    ELSE LET parts == Split(sorted_paths[n])
             withDirs == ParentLines(parts, 1, acc)
         IN  TreeLoop(sorted_paths, n + 1,
                [seen_dirs |-> withDirs.seen_dirs,
                 result_lines |->
                    Append(withDirs.result_lines,
                           Repeat("  ", Len(parts) - 1) \o parts[Len(parts)])])

build_directory_tree(paths) ==
    IF paths = <<>> THEN ""
    ELSE JoinLines(TreeLoop(Sorted(paths), 1,
                            [seen_dirs |-> {}, result_lines |-> <<>>])
                     .result_lines)

\* v1: the connector of the last sibling. The source writes a backquote
\* where this string has an apostrophe (a TLA+ string cannot hold one).
LastConnector == "'-- "

\* v1: the line ceiling of build_tree_string.
TreeLineCap == 200

RECURSIVE InsertNodes(_, _)
\* v1 lines 206-210: the nested dict, as the set of its nodes, each node
\* being the sequence of keys that leads to it.
InsertNodes(sorted_paths, n) ==
    IF n = 0 THEN {}
    ELSE LET parts == Split(sorted_paths[n])
         IN  InsertNodes(sorted_paths, n - 1)
                \cup { SubSeq(parts, 1, k) : k \in 1..Len(parts) }

\* node.keys() of the dict reached by the key sequence node.
ChildKeys(tree, node) ==
    { c[Len(c)] : c \in { m \in tree : /\ Len(m) = Len(node) + 1
                                        /\ SubSeq(m, 1, Len(node)) = node } }

RECURSIVE SortedKeys(_)
\* sorted(node.keys())
SortedKeys(keys) ==
    IF keys = {} THEN <<>>
    ELSE LET least == CHOOSE k \in keys : \A o \in keys \ {k} : StrLess(k, o)
         IN  <<least>> \o SortedKeys(keys \ {least})

RECURSIVE RenderNode(_, _, _)
RECURSIVE RenderEntries(_, _, _, _, _)
\* v1 lines 216-222 from entry i on.
RenderEntries(tree, node, prefix, entries, i) ==
    IF i > Len(entries) THEN <<>>
    ELSE LET name == entries[i]
             is_last == (i = Len(entries))
             connector == IF is_last THEN LastConnector ELSE "|-- "
             extension == IF is_last THEN "    " ELSE "|   "
             child == Append(node, name)
         IN  << prefix \o connector \o name >>
                \o (IF ChildKeys(tree, child) # {}
                    THEN RenderNode(tree, child, prefix \o extension)
                    ELSE <<>>)
                \o RenderEntries(tree, node, prefix, entries, i + 1)

\* v1 _render(node, prefix)
RenderNode(tree, node, prefix) ==
    RenderEntries(tree, node, prefix, SortedKeys(ChildKeys(tree, node)), 1)

\* The ceiling applied one line late and the summary counting from it (a
\* plausible slip: >= for >, or the count taken after the cut).
build_tree_string_cap_off_by_one(file_paths) ==
    LET sorted_paths == Sorted(file_paths)
        tree == InsertNodes(sorted_paths, Len(sorted_paths))
        lines == RenderNode(tree, <<>>, "")
    IN  IF Len(lines) > TreeLineCap + 1
        THEN JoinLines(SubSeq(lines, 1, TreeLineCap + 1)
                \o << "... and " \o ToString(Len(lines) - TreeLineCap - 1)
                        \o " more entries" >>)
        ELSE JoinLines(lines)

build_tree_string(file_paths) ==
    LET sorted_paths == Sorted(file_paths)
        tree == InsertNodes(sorted_paths, Len(sorted_paths))
        lines == RenderNode(tree, <<>>, "")
    IN  IF Len(lines) > TreeLineCap
        THEN JoinLines(SubSeq(lines, 1, TreeLineCap)
                \o << "... and " \o ToString(Len(lines) - TreeLineCap)
                        \o " more entries" >>)
        ELSE JoinLines(lines)

\* Longest list of paths handed to the renderers.
MaxPaths == 3

\* Paths of the rendering runs: files at three depths, a directory entry,
\* and sibling names that share a prefix.
TreePaths ==
    { "README.md", "src", "src/main.py", "src/utils.py", "src/lib/a.py",
      "src/lib-x.py", "tests/test_main.py" }

\* Lists of at most n pairwise distinct paths, as in a git tree.
PathLists(n) ==
    UNION { { l \in [1..k -> TreePaths] :
                \A i, j \in 1..k : i # j => l[i] # l[j] }
            : k \in 0..n }

(***************************************************************************)
(* app/services/llm_summarizer.py: Summarizer.summarize.                   *)
(*                                                                         *)
(* A Python value is a record [type, s, n, elems, items]; only the field   *)
(* of its type is meaningful. A call ends in a record [kind, exc,          *)
(* status_code, value]: it returns value or raises exc.                    *)
(***************************************************************************)
PyStrVal(str) ==
    [type |-> "str", s |-> str, n |-> 0, elems |-> <<>>, items |-> <<>>]

PyIntVal(int) ==
    [type |-> "int", s |-> "", n |-> int, elems |-> <<>>, items |-> <<>>]

PyNone ==
    [type |-> "NoneType", s |-> "", n |-> 0, elems |-> <<>>, items |-> <<>>]

\* A list of strings.
PyListVal(strs) ==
    [type |-> "list", s |-> "", n |-> 0, elems |-> strs, items |-> <<>>]

\* A dict, items being a function from its keys to Python values.
PyDictVal(fields) ==
    [type |-> "dict", s |-> "", n |-> 0, elems |-> <<>>, items |-> fields]

NoValue == [summary |-> "", technologies |-> <<>>, structure |-> ""]

NotCalled ==
    [kind |-> "none", exc |-> "", status_code |-> 0, value |-> NoValue]

Raise(exc, status_code) ==
    [kind |-> "raise", exc |-> exc, status_code |-> status_code,
     value |-> NoValue]

Return(value) ==
    [kind |-> "return", exc |-> "", status_code |-> 0, value |-> value]

\* The markdown fence. The source has three backquotes where this string
\* has three apostrophes (a TLA+ string cannot hold a backquote).
Fence == "'''"

Whitespace == { " ", "\n", "\t" }

RECURSIVE LStrip(_)
LStrip(s) ==
    IF Len(s) > 0 /\ CharAt(s, 1) \in Whitespace
    THEN LStrip(SubSeq(s, 2, Len(s)))
    ELSE s

RECURSIVE RStrip(_)
RStrip(s) ==
    IF Len(s) > 0 /\ CharAt(s, Len(s)) \in Whitespace
    THEN RStrip(SubSeq(s, 1, Len(s) - 1))
    ELSE s

\* str.strip()
Strip(s) == RStrip(LStrip(s))

\* s.split("\n", 1)[1] for a string s that holds a newline
AfterFirstLine(s) ==
    LET nl == CHOOSE i \in 1..Len(s) :
                /\ CharAt(s, i) = "\n"
                /\ \A j \in 1..(i - 1) : CharAt(s, j) # "\n"
    IN  SubSeq(s, nl + 1, Len(s))

\* Lines 108-114: the fences stripped off the raw content.
StripFences(raw_content) ==
    LET c1 == Strip(raw_content)
        c2 == IF StartsWith(c1, Fence)
              THEN IF Contains(c1, "\n") THEN AfterFirstLine(c1)
                   ELSE SubSeq(c1, 4, Len(c1))
              ELSE c1
        c3 == IF EndsWith(c2, Fence) THEN SubSeq(c2, 1, Len(c2) - 3) ELSE c2
    IN  Strip(c3)

\* The JSON documents of the model and the values json.loads gives them.
JsonDocs ==
    ( "[1, 2]" :> PyListVal(<< "1", "2" >>) )
    @@ ( "\"plain text\"" :> PyStrVal("plain text") )
    @@ ( "42" :> PyIntVal(42) )
    @@ ( "null" :> PyNone )
    @@ ( "{}" :> PyDictVal(<<>>) )
    @@ ( "{\"summary\": \"s\", \"structure\": \"x\"}" :>
            PyDictVal([summary |-> PyStrVal("s"),
                       structure |-> PyStrVal("x")]) )
    @@ ( "{\"summary\": \"s\", \"technologies\": [\"t\"], \"structure\": \"x\"}" :>
            PyDictVal([summary |-> PyStrVal("s"),
                       technologies |-> PyListVal(<< "t" >>),
                       structure |-> PyStrVal("x")]) )
    @@ ( "{\"summary\": 7, \"technologies\": \"go\", \"structure\": null}" :>
            PyDictVal([summary |-> PyIntVal(7),
                       technologies |-> PyStrVal("go"),
                       structure |-> PyNone]) )
    @@ ( "{\"summary\": \"s\", \"technologies\": 5, \"structure\": \"x\"}" :>
            PyDictVal([summary |-> PyStrVal("s"),
                       technologies |-> PyIntVal(5),
                       structure |-> PyStrVal("x")]) )

\* Texts that are not JSON.
NonJsonTexts == { "", "Not valid JSON", "{\"summary\": \"s\"" }

\* json.loads(content): the value, or a JSONDecodeError.
json_loads(content) ==
    IF content \in DOMAIN JsonDocs
    THEN Return(JsonDocs[content])
    ELSE Raise("JSONDecodeError", 0)

\* str(v)
PyStr(v) ==
    CASE v.type = "str" -> v.s
      [] v.type = "int" -> ToString(v.n)
      [] v.type = "NoneType" -> "None"

\* list(v) for the values list() accepts
PyList(v) ==
    CASE v.type = "list" -> v.elems
      [] v.type = "str" -> [i \in 1..Len(v.s) |-> CharAt(v.s, i)]

\* The reply of the chat completion call: an exception, or a response with
\* or without a choice whose message content is None or prefix+body+suffix.
NoReply ==
    [kind |-> "none", has_choice |-> FALSE, content_none |-> TRUE,
     prefix |-> "", body |-> "", suffix |-> ""]

Wrappers ==
    { << "", "" >>, << "'''json\n", "\n'''" >>, << "'''\n", "'''" >>,
      << "'''", "'''" >>, << "  ", "\n" >> }

Replies ==
    { [NoReply EXCEPT !.kind = k] : k \in {"APITimeoutError", "APIError"} }
    \cup { [NoReply EXCEPT !.kind = "response"] }
    \cup { [NoReply EXCEPT !.kind = "response", !.has_choice = TRUE] }
    \cup { [kind |-> "response", has_choice |-> TRUE, content_none |-> FALSE,
            prefix |-> w[1], body |-> b, suffix |-> w[2]] :
              w \in Wrappers, b \in (DOMAIN JsonDocs) \cup NonJsonTexts }

RawContent(reply) == reply.prefix \o reply.body \o reply.suffix

REQUIRED_FIELDS == { "summary", "technologies", "structure" }

\* Lines 124-137: the required fields checked and the result built.
\* result.keys() raises AttributeError on a value that is not a dict, and
\* list() raises TypeError on a number.
Validate(result) ==
    IF result.type # "dict"
    THEN Raise("AttributeError", 0)
    ELSE IF REQUIRED_FIELDS \ DOMAIN result.items # {}
    THEN Raise("SummarizerError", 502)
    ELSE IF result.items["technologies"].type \notin {"list", "str"}
    THEN Raise("TypeError", 0)
    ELSE Return([summary |-> PyStr(result.items["summary"]),
                 technologies |-> PyList(result.items["technologies"]),
                 structure |-> PyStr(result.items["structure"])])

\* Summarizer.summarize, given whether the API key is set and the reply of
\* the chat completion call.
summarize(api_key_set, reply) ==
    IF ~api_key_set THEN Raise("SummarizerError", 500)
    ELSE IF reply.kind = "APITimeoutError" THEN Raise("SummarizerError", 504)
    ELSE IF reply.kind = "APIError" THEN Raise("SummarizerError", 502)
    ELSE IF ~reply.has_choice THEN Raise("SummarizerError", 502)
    ELSE IF reply.content_none \/ RawContent(reply) = ""
    THEN Raise("SummarizerError", 502)
    ELSE LET parsed == json_loads(StripFences(RawContent(reply)))
         IN  IF parsed.kind = "raise"
             THEN Raise("SummarizerError", 502)
             ELSE Validate(parsed.value)

(***************************************************************************)
(* The request pipeline: summarize_repo (app/routers/summarize.py) calling *)
(* GitHubClient.fetch_repo_data and Summarizer.summarize. A request moves  *)
(* from one awaited call to the next; every variable below is a function   *)
(* of the request.                                                         *)
(***************************************************************************)
Requests == { 1, 2 }

\* Settings.max_content_chars
MAX_CONTENT_CHARS == 100000

\* settings.max_file_size_bytes (config.py line 10); no code reads it.
MAX_FILE_SIZE_BYTES == 100000

\* Characters set aside for the metadata (github_client.py line 152).
METADATA_RESERVE == 2000

\* The least content budget (github_client.py line 153).
MIN_CONTENT_BUDGET == 10000

\* The longest text kept of one file (github_client.py line 173).
MAX_TEXT_CHARS == 50000

\* len("\n\n... [truncated]")
TRUNCATION_NOTE_CHARS == 17

\* Longest tree listing GitHub returns in the model.
MaxTreeItems == 3

\* The entries a tree listing is made of: blobs with a size, and trees.
RepoEntries ==
    { [path |-> "README.md", type |-> "blob", size |-> 300],
      [path |-> "README.md", type |-> "blob", size |-> 60000],
      [path |-> "src", type |-> "tree", size |-> 0],
      [path |-> "src/main.py", type |-> "blob", size |-> 300],
      [path |-> "src/main.py", type |-> "blob", size |-> 150000],
      [path |-> "node_modules", type |-> "tree", size |-> 0],
      [path |-> "node_modules/foo.js", type |-> "blob", size |-> 300],
      [path |-> "utils.py", type |-> "blob", size |-> 300],
      [path |-> "LICENSE", type |-> "blob", size |-> 300] }

\* Tree listings of at most n entries with pairwise distinct paths.
TreeListings(n) ==
    UNION { { l \in [1..k -> RepoEntries] :
                \A i, j \in 1..k : i # j => l[i].path # l[j].path }
            : k \in 0..n }

\* What one GET of a raw file can do: a response with a status code and a
\* text of some length, or one of the two exceptions the loop catches.
ContentOutcomes ==
    { [kind |-> "response", status_code |-> 200, chars |-> 20],
      [kind |-> "response", status_code |-> 200, chars |-> 60000],
      [kind |-> "response", status_code |-> 404, chars |-> 0],
      [kind |-> "TimeoutException", status_code |-> 0, chars |-> 0],
      [kind |-> "HTTPError", status_code |-> 0, chars |-> 0] }

\* What a GET of the GitHub API can do: a response with a status code whose
\* body is JSON or not, or a transport exception.
ApiOutcomes ==
    { [kind |-> "response", status_code |-> c, json |-> TRUE] :
          c \in {200, 403, 404, 500} }
    \cup { [kind |-> "response", status_code |-> 200, json |-> FALSE],
           [kind |-> "HTTPError", status_code |-> 0, json |-> FALSE] }

\* The replies of the language model the pipeline is run against.
PipelineReplies ==
    LET bodies ==
          { "Not valid JSON", "[1, 2]",
            "{\"summary\": \"s\", \"technologies\": [\"t\"], \"structure\": \"x\"}" }
    IN  { r \in Replies :
            /\ r.prefix = ""
            /\ r.kind = "response" =>
                  r.has_choice /\ ~r.content_none /\ r.body \in bodies }

\* A response of the endpoint: a status code and what the body carries.
NoResponse == [status_code |-> 0, message |-> "", result |-> NoValue]

ErrorResponse(status_code, message) ==
    [status_code |-> status_code, message |-> message, result |-> NoValue]

\* How a call of fetch_repo_data ended: not at all yet, by raising exc, or
\* by returning RepoData (whose directory_tree and file_contents are the
\* variables of these names).
NoFetch == [kind |-> "none", exc |-> "", status_code |-> 0, message |-> ""]

FetchRaised(exc, status_code, message) ==
    [kind |-> "raise", exc |-> exc, status_code |-> status_code,
     message |-> message]

FetchReturned ==
    [kind |-> "return", exc |-> "", status_code |-> 0, message |-> ""]

\* FastAPI's answer to a body that fails validation.
ValidationResponse == ErrorResponse(422, "Invalid GitHub URL")

\* FastAPI's answer to an exception the handler does not catch.
UnhandledResponse == ErrorResponse(500, "Internal Server Error")

\* A mapping that puts a new key first (a plausible slip: the mapping built
\* by prepending, or iterated newest first).
DictSetFront(d, key, value) ==
    << [key |-> key, value |-> value] >> \o d

\* file_contents[path] = text on a dict kept as a sequence of items in
\* insertion order: a new key is appended, an old key keeps its place.
DictSet(d, key, value) ==
    IF \E i \in 1..Len(d) : d[i].key = key
    THEN [i \in 1..Len(d) |->
            IF d[i].key = key THEN [key |-> key, value |-> value] ELSE d[i]]
    ELSE Append(d, [key |-> key, value |-> value])

DictKeys(d) == [i \in 1..Len(d) |-> d[i].key]

\* Lines 171-174: the text kept of a fetched file, by its length.
KeptChars(chars) ==
    IF chars > MAX_TEXT_CHARS
    THEN MAX_TEXT_CHARS + TRUNCATION_NOTE_CHARS
    ELSE chars

\* Lines 133-137: the blobs of the listing, as [path, size] entries.
FileItems(items) ==
    LET blobs == SelectSeq(items, LAMBDA item : item.type = "blob")
    IN  [i \in 1..Len(blobs) |->
            [path |-> blobs[i].path, size |-> blobs[i].size]]

\* Lines 140-144: the paths of all entries that are not excluded.
AllPaths(items) ==
    LET kept == SelectSeq(items, LAMBDA item : ~IsExcluded(item.path))
    IN  [i \in 1..Len(kept) |-> kept[i].path]

\* Lines 151-153.
ContentBudget(tree_text) ==
    LET budget == MAX_CONTENT_CHARS - Len(tree_text) - METADATA_RESERVE
    IN  IF budget > MIN_CONTENT_BUDGET THEN budget ELSE MIN_CONTENT_BUDGET

(***************************************************************************)
(* The request body and its validation (models.py, github_client.py).      *)
(***************************************************************************)
\* The characters of [\w.\-] among the characters the model writes URLs in.
NameChars == AsciiChars \ { "/" }

IsName(s) == Len(s) > 0 /\ \A i \in 1..Len(s) : CharAt(s, i) \in NameChars

\* s without its first n characters.
DropFirst(s, n) == SubSeq(s, n + 1, Len(s))

\* s without its last n characters.
DropLast(s, n) == SubSeq(s, 1, Len(s) - n)

\* models.py lines 11-12: re.match of
\*     ^https?://github\.com/[\w.\-]+/[\w.\-]+/?$
\* against v. Without re.MULTILINE a $ matches at the end of the string and
\* also just before a newline that ends the string; the class [\w.\-] holds
\* no "/", so the two names are the two "/"-separated parts that remain.
MatchesUrlPattern(v) ==
    \E scheme \in { "http://github.com/", "https://github.com/" } :
        /\ StartsWith(v, scheme)
        /\ LET rest == DropFirst(v, Len(scheme))
               before_dollar ==
                   IF EndsWith(rest, "\n") THEN DropLast(rest, 1) ELSE rest
               names ==
                   IF EndsWith(before_dollar, "/")
                   THEN DropLast(before_dollar, 1) ELSE before_dollar
               parts == Split(names)
           IN  /\ Len(parts) = 2
               /\ IsName(parts[1])
               /\ IsName(parts[2])

\* str.rstrip("/")
RECURSIVE RStripSlash(_)
RStripSlash(s) ==
    IF EndsWith(s, "/") THEN RStripSlash(DropLast(s, 1)) ELSE s

\* models.py lines 8-16, SummarizeRequest.validate_github_url: the value
\* kept for a github_url that matches, and no value for one that does not.
validate_github_url(v) ==
    IF MatchesUrlPattern(v)
    THEN [valid |-> TRUE, github_url |-> RStripSlash(v)]
    ELSE [valid |-> FALSE, github_url |-> ""]

\* github_client.py lines 39-46, GitHubClient.parse_github_url.
parse_github_url(url) ==
    LET parts == Split(RStripSlash(url))
    IN  [owner |-> parts[Len(parts) - 1], repo |-> parts[Len(parts)]]

NoRepoRef == [owner |-> "", repo |-> ""]

\* A request body: whether it has the field github_url, and its value.
NoBody == [has_url |-> FALSE, github_url |-> ""]

\* The request bodies the endpoint is sent.
RequestBodies ==
    { NoBody }
    \cup { [has_url |-> TRUE, github_url |-> u] :
             u \in { "https://github.com/psf/requests",
                     "https://github.com/psf/requests/",
                     "http://github.com/psf/requests",
                     "https://github.com/psf/requests\n",
                     "https://gitlab.com/psf/requests",
                     "https://github.com/psf",
                     "https://github.com/psf/requests/tree/main",
                     "https://github.com/psf/requests//",
                     "github.com/psf/requests",
                     "not a url",
                     "" } }

(***************************************************************************)
(* Harness state shared by the specifications of the pure functions.       *)
(***************************************************************************)
SelectIdle == in_files = <<>> /\ in_max_chars = 0 /\ out_selected = <<>>

PathIdle == in_path = "" /\ out_excluded = FALSE /\ out_priority = 0

TreeIdle == in_paths = <<>> /\ out_tree = "" /\ out_tree_v1 = ""

LlmIdle == in_api_key = TRUE /\ in_reply = NoReply /\ out_summary = NotCalled

\* A request that has not entered the handler.
PipeIdle ==
    /\ pc = [r \in Requests |-> "idle"]
    /\ tree_items = [r \in Requests |-> <<>>]
    /\ directory_tree = [r \in Requests |-> ""]
    /\ content_budget = [r \in Requests |-> 0]
    /\ selected_files = [r \in Requests |-> <<>>]
    /\ fetch_idx = [r \in Requests |-> 0]
    /\ file_contents = [r \in Requests |-> <<>>]
    /\ failed_downloads = [r \in Requests |-> <<>>]
    /\ calls = [r \in Requests |-> <<>>]
    /\ response = [r \in Requests |-> NoResponse]
    /\ request_body = [r \in Requests |-> NoBody]
    /\ repo_ref = [r \in Requests |-> NoRepoRef]
    /\ fetch_result = [r \in Requests |-> NoFetch]

(***************************************************************************)
(* SpecSelect: rank_and_select_files applied to every bounded input.       *)
(***************************************************************************)
InitSelect ==
    /\ called = {}
    /\ in_files \in FileLists(MaxFiles)
    /\ in_max_chars \in Budgets
    /\ out_selected = <<>>
    /\ PathIdle
    /\ TreeIdle
    /\ LlmIdle
    /\ PipeIdle

CallRankAndSelect ==
    /\ "rank_and_select_files" \notin called
    /\ called' = called \cup {"rank_and_select_files"}
    /\ out_selected' = rank_and_select_files(in_files, in_max_chars)
    /\ UNCHANGED << in_files, in_max_chars, pathVars, treeVars, llmVars,
                    pipeVars >>

NextSelect == CallRankAndSelect

SpecSelect == InitSelect /\ [][NextSelect]_vars

(***************************************************************************)
(* SpecPath: should_exclude_path and get_file_priority applied to paths.   *)
(***************************************************************************)
InitPath ==
    /\ called = {}
    /\ in_path \in PathPool
    /\ out_excluded = FALSE
    /\ out_priority = 0
    /\ SelectIdle
    /\ TreeIdle
    /\ LlmIdle
    /\ PipeIdle

CallShouldExclude ==
    /\ "should_exclude_path" \notin called
    /\ called' = called \cup {"should_exclude_path"}
    /\ out_excluded' = should_exclude_path(in_path)
    /\ UNCHANGED << in_path, out_priority, selectVars, treeVars, llmVars,
                    pipeVars >>

CallGetFilePriority ==
    /\ "get_file_priority" \notin called
    /\ called' = called \cup {"get_file_priority"}
    /\ out_priority' = get_file_priority(in_path)
    /\ UNCHANGED << in_path, out_excluded, selectVars, treeVars, llmVars,
                    pipeVars >>

NextPath == CallShouldExclude \/ CallGetFilePriority

SpecPath == InitPath /\ [][NextPath]_vars

(***************************************************************************)
(* SpecTree: both tree renderers applied to every bounded path list.       *)
(***************************************************************************)
InitTree ==
    /\ called = {}
    /\ in_paths \in PathLists(MaxPaths)
    /\ out_tree = ""
    /\ out_tree_v1 = ""
    /\ SelectIdle
    /\ PathIdle
    /\ LlmIdle
    /\ PipeIdle

CallBuildDirectoryTree ==
    /\ "build_directory_tree" \notin called
    /\ called' = called \cup {"build_directory_tree"}
    /\ out_tree' = build_directory_tree(in_paths)
    /\ UNCHANGED << in_paths, out_tree_v1, selectVars, pathVars, llmVars,
                    pipeVars >>

CallBuildTreeString ==
    /\ "build_tree_string" \notin called
    /\ called' = called \cup {"build_tree_string"}
    /\ out_tree_v1' = build_tree_string(in_paths)
    /\ UNCHANGED << in_paths, out_tree, selectVars, pathVars, llmVars,
                    pipeVars >>

NextTree == CallBuildDirectoryTree \/ CallBuildTreeString

SpecTree == InitTree /\ [][NextTree]_vars

(***************************************************************************)
(* SpecSummarize: Summarizer.summarize against every modelled reply.       *)
(***************************************************************************)
InitSummarize ==
    /\ called = {}
    /\ in_api_key \in BOOLEAN
    /\ in_reply = NoReply
    /\ out_summary = NotCalled
    /\ SelectIdle
    /\ PathIdle
    /\ TreeIdle
    /\ PipeIdle

CallSummarize ==
    /\ "summarize" \notin called
    /\ called' = called \cup {"summarize"}
    /\ \E reply \in Replies :
          /\ in_reply' = reply
          /\ out_summary' = summarize(in_api_key, reply)
    /\ UNCHANGED << in_api_key, selectVars, pathVars, treeVars,
                    pipeVars >>

NextSummarize == CallSummarize

SpecSummarize == InitSummarize /\ [][NextSummarize]_vars

(***************************************************************************)
(* SpecTreeCap: build_tree_string on trees around its line ceiling.        *)
(***************************************************************************)
\* Most top-level directories of a tree of the ceiling runs.
MaxCapDirs == 22

\* Depths of the files of the ceiling runs, in segments.
CapDepths == { 1, 5, 10 }

\* The file at the given depth below the top-level entry number k.
CapPath(k, depth) == "d" \o ToString(k) \o Repeat("/a", depth - 1)

\* A tree of n files at one depth, each under a top-level entry of its own,
\* and one more top-level file when extra is set: n * depth lines, and one
\* more with the extra file.
CapPaths(n, depth, extra) ==
    [k \in 1..n |-> CapPath(k, depth)]
        \o (IF extra THEN << "zz" >> ELSE <<>>)

InitTreeCap ==
    /\ called = {}
    /\ in_paths \in { CapPaths(n, depth, extra) :
                        n \in 0..MaxCapDirs, depth \in CapDepths,
                        extra \in BOOLEAN }
    /\ out_tree = ""
    /\ out_tree_v1 = ""
    /\ SelectIdle
    /\ PathIdle
    /\ LlmIdle
    /\ PipeIdle

NextTreeCap == CallBuildTreeString

SpecTreeCap == InitTreeCap /\ [][NextTreeCap]_vars

(***************************************************************************)
(* Spec: one request through summarize_repo.                               *)
(***************************************************************************)
\* The call request r makes next, added to its log with what came of it:
\* the status code of the response, or 0 for an exception.
Logged(r, to, path, out) ==
    calls' = [calls EXCEPT ![r] =
                 Append(@, [to |-> to, path |-> path,
                            status_code |-> IF out.kind = "response"
                                            THEN out.status_code ELSE 0])]

\* fetch_repo_data raises GitHubClientError and summarize_repo goes on to
\* the summarizer all the same (a plausible slip: the except branch logs
\* the error and does not return).
FetchFailsStillSummarizes(r, status_code, message) ==
    /\ fetch_result' = [fetch_result EXCEPT ![r] =
          FetchRaised("GitHubClientError", status_code, message)]
    /\ pc' = [pc EXCEPT ![r] = "llm"]
    /\ UNCHANGED response

\* fetch_repo_data raises GitHubClientError(message, status_code) and
\* summarize_repo turns it into the response (summarize.py lines 33-37).
FetchFails(r, status_code, message) ==
    /\ fetch_result' = [fetch_result EXCEPT ![r] =
          FetchRaised("GitHubClientError", status_code, message)]
    /\ pc' = [pc EXCEPT ![r] = "done"]
    /\ response' = [response EXCEPT ![r] = ErrorResponse(status_code, message)]

\* An exception that neither fetch_repo_data nor summarize_repo catches.
Unhandled(r) ==
    /\ fetch_result' = [fetch_result EXCEPT ![r] =
          FetchRaised("HTTPError", 0, "")]
    /\ pc' = [pc EXCEPT ![r] = "done"]
    /\ response' = [response EXCEPT ![r] = UnhandledResponse]

\* The empty-repository error raised whenever no file was fetched, whatever
\* the tree (a plausible slip: the second condition left out).
AfterFetchLoopEmptyContents(r, contents, tree_text) ==
    IF contents = <<>>
    THEN FetchFails(r, 422,
            "Repository appears empty or has no analyzable files")
    ELSE IF ~in_api_key
    THEN /\ fetch_result' = [fetch_result EXCEPT ![r] = FetchReturned]
         /\ pc' = [pc EXCEPT ![r] = "done"]
         /\ response' = [response EXCEPT ![r] =
               ErrorResponse(500, "Server misconfiguration: LLM API key not set")]
    ELSE /\ fetch_result' = [fetch_result EXCEPT ![r] = FetchReturned]
         /\ pc' = [pc EXCEPT ![r] = "llm"]
         /\ UNCHANGED response

\* github_client.py lines 181-197 and summarize.py lines 39-41, run once
\* the fetch loop is over with the content mapping contents and the tree
\* text tree_text: the empty-repository error, or RepoData handed to
\* Summarizer.summarize, which stops at a missing API key or goes on to
\* await the language model.
AfterFetchLoop(r, contents, tree_text) ==
    IF contents = <<>> /\ tree_text = ""
    THEN FetchFails(r, 422,
            "Repository appears empty or has no analyzable files")
    ELSE IF ~in_api_key
    THEN /\ fetch_result' = [fetch_result EXCEPT ![r] = FetchReturned]
         /\ pc' = [pc EXCEPT ![r] = "done"]
         /\ response' = [response EXCEPT ![r] =
               ErrorResponse(500, "Server misconfiguration: LLM API key not set")]
    ELSE /\ fetch_result' = [fetch_result EXCEPT ![r] = FetchReturned]
         /\ pc' = [pc EXCEPT ![r] = "llm"]
         /\ UNCHANGED response

\* summarize.py lines 23-28: a request arrives. FastAPI builds the
\* SummarizeRequest, answering 422 itself when the field is missing or its
\* validator raises; otherwise the handler starts and parses the URL.
ReceiveRequest(r) ==
    /\ pc[r] = "request"
    /\ \E body \in RequestBodies :
          LET checked == validate_github_url(body.github_url)
          IN  /\ request_body' = [request_body EXCEPT ![r] = body]
              /\ IF body.has_url /\ checked.valid
                 THEN /\ repo_ref' = [repo_ref EXCEPT ![r] =
                            parse_github_url(checked.github_url)]
                      /\ pc' = [pc EXCEPT ![r] = "repo"]
                      /\ UNCHANGED response
                 ELSE /\ response' = [response EXCEPT ![r] =
                            ValidationResponse]
                      /\ pc' = [pc EXCEPT ![r] = "done"]
                      /\ UNCHANGED repo_ref
    /\ UNCHANGED << tree_items, directory_tree, content_budget,
                    selected_files, fetch_idx, file_contents,
                    failed_downloads, calls, fetch_result, harnessVars >>

\* github_client.py lines 79-106: the repository metadata is fetched.
GetRepo(r) ==
    /\ pc[r] = "repo"
    /\ \E out \in ApiOutcomes :
        /\ Logged(r, "github_repo",
                  repo_ref[r].owner \o "/" \o repo_ref[r].repo, out)
        /\ IF out.kind # "response" THEN Unhandled(r)
          ELSE IF out.status_code = 404
          THEN FetchFails(r, 404,
                  "Repository not found: " \o repo_ref[r].owner \o "/"
                      \o repo_ref[r].repo)
          ELSE IF out.status_code = 403
          THEN FetchFails(r, 429,
                  "GitHub API rate limit exceeded. Try again later.")
          ELSE IF out.status_code # 200
          THEN FetchFails(r, 502,
                  "Failed to fetch repository data from GitHub")
          ELSE IF ~out.json
          THEN FetchFails(r, 502, "Failed to parse GitHub API response")
          ELSE /\ pc' = [pc EXCEPT ![r] = "tree"]
               /\ UNCHANGED << response, fetch_result >>
    /\ UNCHANGED << tree_items, directory_tree, content_budget,
                    selected_files, fetch_idx, file_contents,
                    failed_downloads, request_body, repo_ref, harnessVars >>

\* github_client.py lines 109-161: the tree is fetched, the directory tree
\* rendered and the files to fetch selected; with nothing selected the fetch
\* loop is over at once. The listing GitHub returns is one of listings.
GetTreeOf(r, listings) ==
    /\ pc[r] = "tree"
    /\ \E out \in ApiOutcomes :
        /\ Logged(r, "github_tree",
                  repo_ref[r].owner \o "/" \o repo_ref[r].repo, out)
        /\ IF out.kind # "response"
          THEN /\ Unhandled(r)
               /\ UNCHANGED << tree_items, directory_tree, content_budget,
                               selected_files, fetch_idx >>
          ELSE IF out.status_code # 200
          THEN /\ FetchFails(r, 502,
                     "Failed to fetch repository tree from GitHub")
               /\ UNCHANGED << tree_items, directory_tree, content_budget,
                               selected_files, fetch_idx >>
          ELSE IF ~out.json
          THEN /\ FetchFails(r, 502, "Failed to parse GitHub tree response")
               /\ UNCHANGED << tree_items, directory_tree, content_budget,
                               selected_files, fetch_idx >>
          ELSE \E items \in listings :
                 LET tree_text == build_directory_tree(AllPaths(items))
                     budget == ContentBudget(tree_text)
                     chosen == rank_and_select_files(FileItems(items), budget)
                 IN  /\ tree_items' = [tree_items EXCEPT ![r] = items]
                     /\ directory_tree' =
                           [directory_tree EXCEPT ![r] = tree_text]
                     /\ content_budget' =
                           [content_budget EXCEPT ![r] = budget]
                     /\ selected_files' =
                           [selected_files EXCEPT ![r] = chosen]
                     /\ fetch_idx' = [fetch_idx EXCEPT ![r] = 1]
                     /\ IF chosen = <<>>
                        THEN AfterFetchLoop(r, <<>>, tree_text)
                        ELSE /\ pc' = [pc EXCEPT ![r] = "fetch"]
                             /\ UNCHANGED << response, fetch_result >>
    /\ UNCHANGED << file_contents, failed_downloads, request_body, repo_ref,
                    harnessVars >>

GetTree(r) == GetTreeOf(r, TreeListings(MaxTreeItems))

\* A failed fetch ends the whole call (a plausible slip: no try/except, or
\* a raise in the else branch).
FetchOutcomeAborting(r, out, path) ==
    IF out.kind = "response" /\ out.status_code = 200
    THEN /\ file_contents' = [file_contents EXCEPT ![r] =
               DictSet(@, path, KeptChars(out.chars))]
         /\ UNCHANGED failed_downloads
         /\ fetch_idx' = [fetch_idx EXCEPT ![r] = @ + 1]
         /\ IF fetch_idx[r] = Len(selected_files[r])
            THEN AfterFetchLoop(r, file_contents'[r], directory_tree[r])
            ELSE UNCHANGED << pc, response, fetch_result >>
    ELSE /\ UNCHANGED << file_contents, failed_downloads, fetch_idx >>
         /\ Unhandled(r)

\* The content mapping kept in one place for all requests (a plausible slip:
\* a module-level dict, or a mutable default argument): a fetched text
\* lands in the mapping of every request.
FetchOutcomeSharedMapping(r, out, path) ==
    /\ IF out.kind = "response" /\ out.status_code = 200
       THEN /\ file_contents' = [q \in Requests |->
                  DictSet(file_contents[q], path, KeptChars(out.chars))]
            /\ UNCHANGED failed_downloads
       ELSE /\ failed_downloads' = [failed_downloads EXCEPT ![r] =
                  Append(@, path)]
            /\ UNCHANGED file_contents
    /\ fetch_idx' = [fetch_idx EXCEPT ![r] = @ + 1]
    /\ IF fetch_idx[r] = Len(selected_files[r])
       THEN AfterFetchLoop(r, file_contents'[r], directory_tree[r])
       ELSE UNCHANGED << pc, response, fetch_result >>

\* github_client.py lines 168-179, and lines 181-197 after the last file:
\* one iteration of the fetch loop, given what the GET did.
FetchOutcome(r, out, path) ==
    /\ IF out.kind = "response" /\ out.status_code = 200
       THEN /\ file_contents' = [file_contents EXCEPT ![r] =
                  DictSet(@, path, KeptChars(out.chars))]
            /\ UNCHANGED failed_downloads
       ELSE /\ failed_downloads' = [failed_downloads EXCEPT ![r] =
                  Append(@, path)]
            /\ UNCHANGED file_contents
    /\ fetch_idx' = [fetch_idx EXCEPT ![r] = @ + 1]
    /\ IF fetch_idx[r] = Len(selected_files[r])
       THEN AfterFetchLoop(r, file_contents'[r], directory_tree[r])
       ELSE UNCHANGED << pc, response, fetch_result >>

\* github_client.py lines 162-179: the next selected file is requested.
GetContent(r) ==
    /\ pc[r] = "fetch"
    /\ LET path == selected_files[r][fetch_idx[r]].path
       IN  \E out \in ContentOutcomes :
               /\ Logged(r, "raw", path, out)
               /\ FetchOutcome(r, out, path)
    /\ UNCHANGED << tree_items, directory_tree, content_budget,
                    selected_files, request_body, repo_ref, harnessVars >>

\* llm_summarizer.py lines 80-137 and summarize.py lines 41-53: the
\* language model replies and the response is built.
LlmReply(r) ==
    /\ pc[r] = "llm"
    /\ \E reply \in PipelineReplies :
          LET outcome == summarize(in_api_key, reply)
          IN  response' = [response EXCEPT ![r] =
                 IF outcome.kind = "return"
                 THEN [status_code |-> 200, message |-> "",
                       result |-> outcome.value]
                 ELSE IF outcome.exc = "SummarizerError"
                 THEN ErrorResponse(outcome.status_code, "SummarizerError")
                 ELSE ErrorResponse(500, "Unexpected error")]
    /\ calls' = [calls EXCEPT ![r] =
                    Append(@, [to |-> "llm", path |-> "", status_code |-> 0])]
    /\ pc' = [pc EXCEPT ![r] = "done"]
    /\ UNCHANGED << tree_items, directory_tree, content_budget,
                    selected_files, fetch_idx, file_contents,
                    failed_downloads, request_body, repo_ref, fetch_result,
                    harnessVars >>

\* One request enters summarize_repo; the other never arrives.
Init ==
    /\ called = {}
    /\ SelectIdle
    /\ PathIdle
    /\ TreeIdle
    /\ in_api_key \in BOOLEAN
    /\ in_reply = NoReply
    /\ out_summary = NotCalled
    /\ pc = [r \in Requests |-> IF r = 1 THEN "request" ELSE "idle"]
    /\ tree_items = [r \in Requests |-> <<>>]
    /\ directory_tree = [r \in Requests |-> ""]
    /\ content_budget = [r \in Requests |-> 0]
    /\ selected_files = [r \in Requests |-> <<>>]
    /\ fetch_idx = [r \in Requests |-> 0]
    /\ file_contents = [r \in Requests |-> <<>>]
    /\ failed_downloads = [r \in Requests |-> <<>>]
    /\ calls = [r \in Requests |-> <<>>]
    /\ response = [r \in Requests |-> NoResponse]
    /\ request_body = [r \in Requests |-> NoBody]
    /\ repo_ref = [r \in Requests |-> NoRepoRef]
    /\ fetch_result = [r \in Requests |-> NoFetch]

Next ==
    \E r \in Requests :
        \/ ReceiveRequest(r)
        \/ GetRepo(r)
        \/ GetTree(r)
        \/ GetContent(r)
        \/ LlmReply(r)

Spec == Init /\ [][Next]_vars

(***************************************************************************)
(* SpecConcurrent: two requests in flight at once. The handler is a        *)
(* coroutine on one event loop: the code between two awaits runs without   *)
(* interruption, and at an await the other request may run.                *)
(***************************************************************************)
\* Longest tree listing of the concurrent runs.
MaxConcurrentItems == 2

\* The entries the listings of the concurrent runs are made of.
ConcurrentEntries ==
    { e \in RepoEntries : /\ e.path \in { "README.md", "utils.py", "src" }
                          /\ e.size <= 300 }

ConcurrentListings ==
    { l \in TreeListings(MaxConcurrentItems) :
        \A i \in 1..Len(l) : l[i] \in ConcurrentEntries }

\* Both requests have arrived.
InitConcurrent ==
    /\ called = {}
    /\ SelectIdle
    /\ PathIdle
    /\ TreeIdle
    /\ in_api_key \in BOOLEAN
    /\ in_reply = NoReply
    /\ out_summary = NotCalled
    /\ pc = [r \in Requests |-> "request"]
    /\ tree_items = [r \in Requests |-> <<>>]
    /\ directory_tree = [r \in Requests |-> ""]
    /\ content_budget = [r \in Requests |-> 0]
    /\ selected_files = [r \in Requests |-> <<>>]
    /\ fetch_idx = [r \in Requests |-> 0]
    /\ file_contents = [r \in Requests |-> <<>>]
    /\ failed_downloads = [r \in Requests |-> <<>>]
    /\ calls = [r \in Requests |-> <<>>]
    /\ response = [r \in Requests |-> NoResponse]
    /\ request_body = [r \in Requests |-> NoBody]
    /\ repo_ref = [r \in Requests |-> NoRepoRef]
    /\ fetch_result = [r \in Requests |-> NoFetch]

\* The bodies of the concurrent runs: a valid one and an invalid one.
ConcurrentBodies ==
    { body \in RequestBodies :
        body.github_url \in { "https://github.com/psf/requests/",
                              "not a url" } }

\* One step of request r between two awaits. Of the outcomes of a file
\* fetch the concurrent runs keep a short text and an exception, of the
\* replies of the language model a summary and a timeout.
StepOf(r) ==
    \/ /\ ReceiveRequest(r)
       /\ request_body'[r] \in ConcurrentBodies
    \/ GetRepo(r)
    \/ GetTreeOf(r, ConcurrentListings)
    \/ /\ GetContent(r)
       /\ calls'[r][Len(calls'[r])].status_code \in { 0, 200 }
       /\ \A i \in 1..Len(file_contents'[r]) :
             file_contents'[r][i].value <= MAX_TEXT_CHARS
    \/ /\ LlmReply(r)
       /\ response'[r].status_code \in { 200, 504 }

NextConcurrent == \E r \in Requests : StepOf(r)

SpecConcurrent == InitConcurrent /\ [][NextConcurrent]_vars

(***************************************************************************)
(* Properties of rank_and_select_files (SpecSelect).                       *)
(***************************************************************************)
Returned == "rank_and_select_files" \in called

RECURSIVE SumSizes(_)
SumSizes(l) == IF l = <<>> THEN 0 ELSE Head(l).size + SumSizes(Tail(l))

\* The key the selection order is stated in: (tier, not-entry-point flag,
\* path depth, size).
OrderKeyOf ==
    [f \in FileEntries |->
        << PriorityTier(f.path),
           IF Filename(f.path) \in TIER3_ENTRY_POINTS THEN 0 ELSE 1,
           Len(Split(f.path)) - 1,
           f.size >>]

\* Positions of the eligible entries of the input list.
EligibleIdx ==
    { i \in 1..Len(in_files) :
        /\ ~IsExcluded(in_files[i].path)
        /\ PriorityTier(in_files[i].path) # PRIORITY_SKIP }

\* Position in the input of the first candidate in sorted order: least key,
\* and earliest in the input among the entries with that key.
FirstCandidateIdx ==
    CHOOSE i \in EligibleIdx :
        \A j \in EligibleIdx \ {i} :
            \/ KeyLess(OrderKeyOf[in_files[i]], OrderKeyOf[in_files[j]])
            \/ /\ OrderKeyOf[in_files[i]] = OrderKeyOf[in_files[j]]
               /\ i < j

FirstCandidateOverBudget ==
    /\ EligibleIdx # {}
    /\ in_files[FirstCandidateIdx].size > in_max_chars

C2_AtLeastOne ==
    Returned =>
        /\ (EligibleIdx # {} /\ in_max_chars > 0) => out_selected # <<>>
        /\ (out_selected = <<>>) <=> (EligibleIdx = {})

\* The only eligible entry exceeds a positive budget and is still returned.
C2_Witness ==
    /\ Returned
    /\ in_max_chars > 0
    /\ Cardinality(EligibleIdx) = 1
    /\ \A i \in EligibleIdx : in_files[i].size > in_max_chars
    /\ Len(in_files) >= 2
    /\ out_selected # <<>>

\* Position of entry f in the input list (paths are distinct).
InputIdx(f) == CHOOSE i \in 1..Len(in_files) : in_files[i] = f

C5_OnlyEligibleInputs ==
    Returned =>
        \A i \in 1..Len(out_selected) :
            /\ \E j \in 1..Len(in_files) : in_files[j] = out_selected[i]
            /\ Cardinality({k \in 1..Len(out_selected) :
                               out_selected[k] = out_selected[i]})
                 <= Cardinality({j \in 1..Len(in_files) :
                                    in_files[j] = out_selected[i]})
            /\ ~IsExcluded(out_selected[i].path)
            /\ PriorityTier(out_selected[i].path) # PRIORITY_SKIP

\* The input held an excluded entry, a Skip entry and an eligible entry, and
\* only the eligible one was returned.
C5_Witness ==
    /\ Returned
    /\ Len(in_files) = 3
    /\ \E i \in 1..3 : IsExcluded(in_files[i].path)
    /\ \E i \in 1..3 :
          /\ ~IsExcluded(in_files[i].path)
          /\ PriorityTier(in_files[i].path) = PRIORITY_SKIP
    /\ Len(out_selected) = 1

\* The list l rearranged by the permutation sigma of its positions.
Permuted(l, sigma) == [i \in 1..Len(l) |-> l[sigma[i]]]

PathsOf(l) == { l[i].path : i \in 1..Len(l) }

\* The paths the exclusion step of rank_and_select_files removes from l.
RemovedPaths(l) == PathsOf(l) \ PathsOf(ExcludeFilter(l))

\* C7: the exclusion step removes the same set of paths from every
\* permutation of the input list, and filtering the filtered list again
\* removes nothing.
C7_ExclusionOrderIndependent ==
    /\ \A sigma \in Permutations(1..Len(in_files)) :
          RemovedPaths(Permuted(in_files, sigma)) = RemovedPaths(in_files)
    /\ ExcludeFilter(ExcludeFilter(in_files)) = ExcludeFilter(in_files)

\* The run filtered a list whose first entry is excluded and whose later
\* entries are not, and none of the removed paths was returned.
C7_Witness ==
    /\ Returned
    /\ Len(in_files) = 3
    /\ IsExcluded(in_files[1].path)
    /\ ~IsExcluded(in_files[2].path)
    /\ ~IsExcluded(in_files[3].path)
    /\ RemovedPaths(in_files) = {in_files[1].path}
    /\ PathsOf(out_selected) \cap RemovedPaths(in_files) = {}
    /\ out_selected # <<>>

(***************************************************************************)
(* Properties of get_file_priority and should_exclude_path (SpecPath).     *)
(***************************************************************************)
PriorityReturned == "get_file_priority" \in called

ExcludeReturned == "should_exclude_path" \in called

\* C3: the tiers are strictly ordered, README < manifest < source < test <
\* Skip, and README.md, package.json, src/app.py and tests/test_app.py get
\* the values of these four tiers in that order.
C3_TierOrder ==
    PriorityReturned =>
        /\ PRIORITY_TIER1 < PRIORITY_TIER2
        /\ PRIORITY_TIER2 < PRIORITY_TIER3
        /\ PRIORITY_TIER3 < PRIORITY_TIER4
        /\ PRIORITY_TIER4 < PRIORITY_SKIP
        /\ out_priority \in { PRIORITY_TIER1, PRIORITY_TIER2, PRIORITY_TIER3,
                              PRIORITY_TIER4, PRIORITY_SKIP }
        /\ in_path = "README.md" =>
              /\ out_priority = PRIORITY_TIER1
              /\ out_priority < PriorityTier("package.json")
        /\ in_path = "package.json" =>
              /\ out_priority = PRIORITY_TIER2
              /\ out_priority < PriorityTier("src/app.py")
        /\ in_path = "src/app.py" =>
              /\ out_priority = PRIORITY_TIER3
              /\ out_priority < PriorityTier("tests/test_app.py")
        /\ in_path = "tests/test_app.py" =>
              /\ out_priority = PRIORITY_TIER4
              /\ PriorityTier("src/app.py") < out_priority
              /\ out_priority < PRIORITY_SKIP

\* The test file of the chain was ranked, below the source file and above
\* Skip.
C3_Witness ==
    /\ PriorityReturned
    /\ in_path = "tests/test_app.py"
    /\ out_priority = PRIORITY_TIER4

\* The segments of the argument path, and its final segment.
PathSegments == Split(in_path)

FinalSegment == PathSegments[Len(PathSegments)]

\* Rule 1: a segment other than the final one is an excluded directory name.
RuleExcludedDir ==
    \E i \in 1..(Len(PathSegments) - 1) : PathSegments[i] \in EXCLUDED_DIRS

\* Rule 2: the final segment is a lock-file name.
RuleExcludedFilename == FinalSegment \in EXCLUDED_FILENAMES

\* Rule 3: the final segment's extension, ignoring case, is excluded.
RuleExcludedExtension ==
    \E e \in EXCLUDED_EXTENSIONS : EndsWith(StrLower(FinalSegment), e)

\* Rule 4: a minified bundle or a build chunk.
RuleGenerated ==
    \/ EndsWith(FinalSegment, ".min.js")
    \/ EndsWith(FinalSegment, ".min.css")
    \/ Contains(FinalSegment, ".chunk.")

\* C6: should_exclude_path is true exactly when one of the four rules holds;
\* src/main.py and README.md are not excluded and
\* node_modules/express/index.js is.
C6_ExclusionRules ==
    ExcludeReturned =>
        /\ out_excluded <=> \/ RuleExcludedDir
                            \/ RuleExcludedFilename
                            \/ RuleExcludedExtension
                            \/ RuleGenerated
        /\ in_path \in {"src/main.py", "README.md"} => ~out_excluded
        /\ in_path = "node_modules/express/index.js" => out_excluded

\* A path was excluded by the extension rule alone, through an upper-case
\* extension.
C6_Witness ==
    /\ ExcludeReturned
    /\ out_excluded
    /\ in_path = "src/LOGO.PNG"
    /\ ~RuleExcludedDir
    /\ ~RuleExcludedFilename
    /\ ~RuleGenerated

(***************************************************************************)
(* Properties of the tree renderers (SpecTree).                            *)
(***************************************************************************)
\* C8: each renderer returns the same text for every ordering of the same
\* paths, and the empty string for the empty list.
C8_RenderingOrderIndependent ==
    /\ "build_directory_tree" \in called =>
          /\ \A sigma \in Permutations(1..Len(in_paths)) :
                build_directory_tree(Permuted(in_paths, sigma)) = out_tree
          /\ in_paths = <<>> => out_tree = ""
    /\ "build_tree_string" \in called =>
          /\ \A sigma \in Permutations(1..Len(in_paths)) :
                build_tree_string(Permuted(in_paths, sigma)) = out_tree_v1
          /\ in_paths = <<>> => out_tree_v1 = ""

\* Both renderers rendered three paths given out of lexical order.
C8_Witness ==
    /\ {"build_directory_tree", "build_tree_string"} \subseteq called
    /\ in_paths = << "src/utils.py", "README.md", "src/main.py" >>
    /\ out_tree = "README.md\nsrc/\n  main.py\n  utils.py"
    /\ out_tree_v1 = "|-- README.md\n'-- src\n    |-- main.py\n    '-- utils.py"

(***************************************************************************)
(* Properties of Summarizer.summarize (SpecSummarize).                     *)
(***************************************************************************)
\* The reply carries a JSON object with all three required fields.
IsCompleteObject(reply) ==
    /\ reply.kind = "response"
    /\ reply.has_choice
    /\ ~reply.content_none
    /\ reply.body \in DOMAIN JsonDocs
    /\ JsonDocs[reply.body].type = "dict"
    /\ REQUIRED_FIELDS \subseteq DOMAIN JsonDocs[reply.body].items

\* C9: for every backend output that is not a JSON object with the fields
\* summary, technologies and structure, summarize raises SummarizerError and
\* returns nothing.
C9_MalformedRaisesSummarizerError ==
    ("summarize" \in called /\ in_reply.kind = "response"
        /\ ~IsCompleteObject(in_reply))
       => /\ out_summary.kind = "raise"
          /\ out_summary.exc = "SummarizerError"

(***************************************************************************)
(* Properties of the fetch loop of fetch_repo_data, under Spec.            *)
(***************************************************************************)
\* The raw-file requests request r has made, in order.
RawCalls(r) == SelectSeq(calls[r], LAMBDA c : c.to = "raw")

\* The paths of the raw-file requests that were answered with 200.
FetchedPaths(r) ==
    LET ok == SelectSeq(RawCalls(r), LAMBDA c : c.status_code = 200)
    IN  [i \in 1..Len(ok) |-> ok[i].path]

\* The fetch loop of request r has run to its end.
FetchLoopOver(r) == pc[r] \in {"llm", "done"} /\ fetch_idx[r] >= 1

\* C10: a failed file fetch (timeout, transport error, non-200 status) does
\* not abort the batch. The raw-file requests made so far are the selected
\* paths in order, one request each; once the loop is over every selected
\* path has been requested; the content mapping holds exactly the paths
\* answered with 200; and a call in which a file was requested ends neither
\* in an uncaught exception nor in an error of fetch_repo_data.
C10_FetchFailureDoesNotAbort ==
    \A r \in Requests :
        LET raw == RawCalls(r)
            sel == selected_files[r]
        IN  /\ Len(raw) <= Len(sel)
            /\ \A i \in 1..Len(raw) : raw[i].path = sel[i].path
            /\ \A i, j \in 1..Len(raw) : i # j => raw[i].path # raw[j].path
            /\ FetchLoopOver(r) => Len(raw) = Len(sel)
            /\ DictKeys(file_contents[r]) = FetchedPaths(r)
            /\ Len(raw) > 0 =>
                  /\ response[r] # UnhandledResponse
                  /\ response[r].status_code # 422
                  /\ pc[r] = "done" => Len(raw) = Len(sel)

\* A finished call whose first file fetch raised and whose second file
\* fetch was answered with 404, while the third succeeded and is the only
\* key of the content mapping.
C10_Witness ==
    \E r \in Requests :
        LET raw == RawCalls(r)
        IN  /\ pc[r] = "done"
            /\ response[r].status_code = 200
            /\ Len(raw) = 3
            /\ raw[1].status_code = 0
            /\ raw[2].status_code = 404
            /\ raw[3].status_code = 200
            /\ DictKeys(file_contents[r]) = << raw[3].path >>
            /\ failed_downloads[r] = << raw[1].path, raw[2].path >>

(***************************************************************************)
(* Properties of the end of fetch_repo_data, under Spec.                   *)
(***************************************************************************)
\* fetch_repo_data of request r raised the empty-repository error.
RaisedEmptyRepository(r) ==
    /\ fetch_result[r].kind = "raise"
    /\ fetch_result[r].exc = "GitHubClientError"
    /\ fetch_result[r].status_code = 422

\* C11: fetch_repo_data raises the empty-repository error (422) if and only
\* if, after all fetches, the content mapping is empty and the rendered tree
\* is empty; with a non-empty tree or a fetched file it returns RepoData,
\* however many file fetches failed.
C11_EmptyRepositoryError ==
    \A r \in Requests :
        LET nothing == file_contents[r] = <<>> /\ directory_tree[r] = ""
        IN  /\ RaisedEmptyRepository(r) <=> (FetchLoopOver(r) /\ nothing)
            /\ (FetchLoopOver(r) /\ ~nothing) =>
                  fetch_result[r] = FetchReturned

\* Every file fetch of a call failed, two of them, and the call returned
\* RepoData with an empty content mapping and a tree that is not empty.
C11_Witness ==
    \E r \in Requests :
        /\ FetchLoopOver(r)
        /\ Len(RawCalls(r)) = 2
        /\ Len(failed_downloads[r]) = 2
        /\ file_contents[r] = <<>>
        /\ directory_tree[r] # ""
        /\ fetch_result[r] = FetchReturned

(***************************************************************************)
(* Properties of the two GitHub API calls of fetch_repo_data, under Spec.  *)
(***************************************************************************)
\* The status the endpoint is to answer with when a call of the GitHub API
\* was answered with status_code: not found, rate limited, other failure.
ListerErrorStatus(status_code) ==
    CASE status_code = 404 -> 404
      [] status_code = 403 -> 429
      [] OTHER -> 502

\* The calls of the GitHub API request r has made that were answered with
\* a status other than 200.
FailedListerCalls(r) ==
    SelectSeq(calls[r],
              LAMBDA c : /\ c.to \in { "github_repo", "github_tree" }
                         /\ c.status_code \notin { 0, 200 })

\* C12: for the metadata call and for the tree call alike, an answer of
\* 404, of 403 and of any other failure status ends the request with 404,
\* 429 and 502 respectively.
C12_ListerErrorMapping ==
    \A r \in Requests :
        \A i \in 1..Len(FailedListerCalls(r)) :
            response[r].status_code =
                ListerErrorStatus(FailedListerCalls(r)[i].status_code)

\* The same for the metadata call alone.
RepoCallErrorMapping ==
    \A r \in Requests :
        \A i \in 1..Len(FailedListerCalls(r)) :
            FailedListerCalls(r)[i].to = "github_repo" =>
                response[r].status_code =
                    ListerErrorStatus(FailedListerCalls(r)[i].status_code)

(***************************************************************************)
(* rank_and_select_files and a budget that is not positive (SpecSelect).   *)
(***************************************************************************)
\* C13: a call of rank_and_select_files with max_chars <= 0 is rejected as
\* invalid input and selects no file. The function has no error outcome
\* other than an exception, and the model's operator, like the code, always
\* returns a list: the rejection is read as "nothing is selected".
C13_NonPositiveBudgetRejected ==
    (Returned /\ in_max_chars <= 0) => out_selected = <<>>

(***************************************************************************)
(* Validation of the request body, under Spec.                             *)
(***************************************************************************)
\* The body has a github_url of the form http(s)://github.com/{owner}/{repo}
\* with an optional trailing slash, read off the "/"-separated parts of the
\* URL.
HasRepoUrlForm(body) ==
    /\ body.has_url
    /\ LET parts == Split(body.github_url)
       IN  /\ Len(parts) \in { 5, 6 }
           /\ parts[1] \in { "http:", "https:" }
           /\ parts[2] = ""
           /\ parts[3] = "github.com"
           /\ IsName(parts[4])
           /\ IsName(parts[5])
           /\ Len(parts) = 6 => parts[6] = ""

\* Request r has been received.
Received(r) == pc[r] \notin { "idle", "request" }

\* C14: a request whose github_url is not of the form
\* http(s)://github.com/{owner}/{repo}, with an optional trailing slash, is
\* answered with 422 and no call to GitHub or to the language model is made
\* for it.
C14_MalformedUrlRejected ==
    \A r \in Requests :
        (Received(r) /\ ~HasRepoUrlForm(request_body[r])) =>
            /\ response[r].status_code = 422
            /\ calls[r] = <<>>

\* The same for the bodies whose github_url does not end in a newline: wrong
\* host, missing repo, extra sub-path, arbitrary text, missing field.
MalformedUrlWithoutNewlineRejected ==
    \A r \in Requests :
        (/\ Received(r)
         /\ ~HasRepoUrlForm(request_body[r])
         /\ ~EndsWith(request_body[r].github_url, "\n")) =>
            /\ response[r].status_code = 422
            /\ calls[r] = <<>>

\* Every body of the form is accepted.
WellFormedUrlAccepted ==
    \A r \in Requests :
        (Received(r) /\ HasRepoUrlForm(request_body[r])) =>
            repo_ref[r] = [owner |-> "psf", repo |-> "requests"]

(***************************************************************************)
(* The order of the stages of summarize_repo, under Spec.                  *)
(***************************************************************************)
\* The positions in the call log of request r of its calls to the language
\* model.
LlmCallIdx(r) == { i \in 1..Len(calls[r]) : calls[r][i].to = "llm" }

\* C15: the summarizer runs only after fetch_repo_data has returned: while
\* the language model is awaited and once it has been called, the fetch has
\* returned and no call to GitHub follows the call to the model. When
\* fetch_repo_data raises GitHubClientError with status s the request ends
\* with status s and the error's message, with no call to the model.
C15_FetchThenSummarize ==
    \A r \in Requests :
        /\ (pc[r] = "llm" \/ LlmCallIdx(r) # {}) =>
              /\ fetch_result[r] = FetchReturned
              /\ LlmCallIdx(r) \subseteq { Len(calls[r]) }
        /\ (fetch_result[r].kind = "raise"
              /\ fetch_result[r].exc = "GitHubClientError") =>
              /\ pc[r] = "done"
              /\ response[r] = ErrorResponse(fetch_result[r].status_code,
                                             fetch_result[r].message)
              /\ LlmCallIdx(r) = {}

\* GitHub answered the metadata call with 404: fetch_repo_data raised
\* GitHubClientError(404) and the request ended with 404 and its message,
\* after one call to GitHub and none to the language model.
C15_Witness ==
    \E r \in Requests :
        /\ fetch_result[r] =
              FetchRaised("GitHubClientError", 404,
                          "Repository not found: psf/requests")
        /\ response[r].status_code = 404
        /\ response[r].message = "Repository not found: psf/requests"
        /\ Len(calls[r]) = 1
        /\ calls[r][1].to = "github_repo"

(***************************************************************************)
(* The greedy walk of rank_and_select_files (SpecSelect).                  *)
(***************************************************************************)
\* The entries of l at the positions where keep is true, in order.
RECURSIVE KeptFrom(_, _, _)
KeptFrom(l, keep, i) ==
    IF i > Len(l) THEN <<>>
    ELSE IF keep[i] THEN << l[i] >> \o KeptFrom(l, keep, i + 1)
    ELSE KeptFrom(l, keep, i + 1)

\* The total size of the entries of l accepted before position i.
AcceptedBefore(l, keep, i) ==
    SumSizes(KeptFrom(SubSeq(l, 1, i - 1), keep, 1))

\* The greedy reference walks over l with the budget: the ways of marking
\* every position once as accepted or rejected such that a position is
\* accepted if and only if nothing was accepted before it or the sizes
\* accepted before it plus its own size do not exceed the budget.
GreedyWalks(l, budget) ==
    { keep \in [1..Len(l) -> BOOLEAN] :
        \A i \in 1..Len(l) :
            keep[i] <=> \/ \A j \in 1..(i - 1) : ~keep[j]
                        \/ AcceptedBefore(l, keep, i) + l[i].size <= budget }

\* C16: the list returned by rank_and_select_files is the list of the
\* entries accepted by the greedy reference walk over the sorted eligible
\* entries, and there is one such walk: every entry is considered once,
\* accepted if and only if nothing is accepted yet or it still fits, and a
\* rejection neither comes back nor ends the walk.
C16_GreedyReferenceWalk ==
    Returned =>
        LET sorted_eligible == Eligible(in_files)
            walks == GreedyWalks(sorted_eligible, in_max_chars)
        IN  /\ Cardinality(walks) = 1
            /\ \A keep \in walks :
                  out_selected = KeptFrom(sorted_eligible, keep, 1)

\* A call in which an entry was rejected and an entry later in the sorted
\* order was accepted.
C16_Witness ==
    /\ Returned
    /\ LET sorted_eligible == Eligible(in_files)
       IN  \E i, j \in 1..Len(sorted_eligible) :
              /\ i < j
              /\ \A k \in 1..Len(out_selected) :
                    out_selected[k] # sorted_eligible[i]
              /\ \E k \in 1..Len(out_selected) :
                    out_selected[k] = sorted_eligible[j]

(***************************************************************************)
(* The tiers of get_file_priority (SpecPath).                              *)
(***************************************************************************)
\* The final segment of the argument is, letter case apart, one of the
\* canonical README names.
IsCanonicalReadme ==
    StrUpper(FinalSegment) \in { StrUpper(name) : name \in TIER1_FILENAMES }

\* C17: get_file_priority returns Tier 1 exactly when the case-normalized
\* filename is one of the canonical README names; a filename that only
\* begins with the letters README is not Tier 1.
C17_CanonicalReadmeOnly ==
    PriorityReturned => (out_priority = PRIORITY_TIER1 <=> IsCanonicalReadme)

\* One half of it: every canonical README name is Tier 1.
CanonicalReadmeIsTier1 ==
    (PriorityReturned /\ IsCanonicalReadme) => out_priority = PRIORITY_TIER1

\* The argument is neither Tier 1 nor Tier 2 and its filename has a source
\* extension.
IsRankedSource ==
    /\ out_priority \notin { PRIORITY_TIER1, PRIORITY_TIER2 }
    /\ LowerExt(FinalSegment) \in SOURCE_EXTENSIONS

TestSegmentNames == { "test", "tests", "spec" }

\* The directory segments of the argument: all segments but the last.
DirectorySegments ==
    { PathSegments[i] : i \in 1..(Len(PathSegments) - 1) }

\* C18: a source file that is neither Tier 1 nor Tier 2 and has, at any
\* depth, a directory segment named test, tests or spec is Tier 4.
C18_TestDirectoryIsTier4 ==
    (/\ PriorityReturned
     /\ IsRankedSource
     /\ \E seg \in DirectorySegments : StrLower(seg) \in TestSegmentNames) =>
        out_priority = PRIORITY_TIER4

\* The same for a directory segment that is not the first one.
InnerTestDirectoryIsTier4 ==
    (/\ PriorityReturned
     /\ IsRankedSource
     /\ \E i \in 2..(Len(PathSegments) - 1) :
           StrLower(PathSegments[i]) \in TestSegmentNames) =>
        out_priority = PRIORITY_TIER4

\* The filename without its extension.
Stem(filename) ==
    IF RFind(filename, ".") = 0 THEN filename
    ELSE SubSeq(filename, 1, RFind(filename, ".") - 1)

\* The filename starts with test_ or carries a test or spec marker before
\* its extension.
HasTestFilename ==
    \/ StartsWith(FinalSegment, "test_")
    \/ \E marker \in { "_test", ".test", "_spec", ".spec" } :
          EndsWith(Stem(FinalSegment), marker)

\* C19: a source file that is neither Tier 1 nor Tier 2, has no segment
\* named test, tests or spec and has no test filename is Tier 3, also when a
\* directory or file name of it merely begins with test or spec.
C19_OrdinarySourceIsTier3 ==
    (/\ PriorityReturned
     /\ IsRankedSource
     /\ \A i \in 1..Len(PathSegments) :
           StrLower(PathSegments[i]) \notin TestSegmentNames
     /\ ~HasTestFilename) =>
        out_priority = PRIORITY_TIER3

(***************************************************************************)
(* The shape of the tree of build_directory_tree (SpecTree).               *)
(***************************************************************************)
\* The nodes of the tree of a set of file paths: every non-empty prefix of
\* the segments of a path.
TreeNodes(paths) ==
    UNION { { SubSeq(Split(p), 1, k) : k \in 1..Len(Split(p)) } : p \in paths }

\* The children of node among nodes.
ChildrenOf(nodes, node) ==
    { n \in nodes : /\ Len(n) = Len(node) + 1
                    /\ SubSeq(n, 1, Len(node)) = node }

\* The nodes of a set of siblings in lexical order of their last segments.
RECURSIVE InSegmentOrder(_)
InSegmentOrder(siblings) ==
    IF siblings = {} THEN <<>>
    ELSE LET first == CHOOSE n \in siblings :
                         \A m \in siblings \ {n} :
                             StrLess(n[Len(n)], m[Len(m)])
         IN  << first >> \o InSegmentOrder(siblings \ {first})

\* The lines of the depth-first tree below node: each child in segment
\* order, a directory with a trailing slash and followed by its own
\* children one level deeper.
RECURSIVE SubtreeLines(_, _)
RECURSIVE ChildLines(_, _)
ChildLines(nodes, children) ==
    IF children = <<>> THEN <<>>
    ELSE LET child == Head(children)
             name == child[Len(child)]
             indent == Repeat("  ", Len(child) - 1)
             is_dir == ChildrenOf(nodes, child) # {}
         IN  << indent \o name \o (IF is_dir THEN "/" ELSE "") >>
                 \o SubtreeLines(nodes, child)
                 \o ChildLines(nodes, Tail(children))

SubtreeLines(nodes, node) ==
    ChildLines(nodes, InSegmentOrder(ChildrenOf(nodes, node)))

\* The paths are those of the files of a tree: none of them is also a
\* directory of another.
IsFileSet(paths) ==
    \A p, q \in paths : ~StartsWith(q, p \o "/")

InPathSet == { in_paths[i] : i \in 1..Len(in_paths) }

\* C20: for every set of file paths build_directory_tree renders the
\* depth-first tree: each directory once, before its children, the children
\* one level deeper and, files and directories alike, in lexical order of
\* their segment names.
C20_DepthFirstSegmentOrder ==
    ("build_directory_tree" \in called /\ IsFileSet(InPathSet)) =>
        out_tree = JoinLines(SubtreeLines(TreeNodes(InPathSet), <<>>))

\* The same for the path sets in which no segment name is a proper prefix
\* of the name of a sibling.
DepthFirstWithoutPrefixSiblings ==
    (/\ "build_directory_tree" \in called
     /\ IsFileSet(InPathSet)
     /\ \A n, m \in TreeNodes(InPathSet) :
           (/\ n # m
            /\ Len(n) = Len(m)
            /\ SubSeq(n, 1, Len(n) - 1) = SubSeq(m, 1, Len(m) - 1)) =>
               ~StartsWith(m[Len(m)], n[Len(n)])) =>
        out_tree = JoinLines(SubtreeLines(TreeNodes(InPathSet), <<>>))

(***************************************************************************)
(* The line ceiling of build_tree_string (SpecTreeCap).                    *)
(***************************************************************************)
\* The lines of a text: none for the empty text.
LineCount(text) == IF text = "" THEN 0 ELSE Count(text, "\n") + 1

\* The number of lines of the whole tree of the argument: one per node.
TotalLines == Cardinality(TreeNodes(InPathSet))

\* The tree of the argument rendered in full.
FullTreeLines ==
    LET sorted_paths == Sorted(in_paths)
    IN  RenderNode(InsertNodes(sorted_paths, Len(sorted_paths)), <<>>, "")

SummaryLine(count) == "... and " \o ToString(count) \o " more entries"

\* C21: build_tree_string never returns more than 201 lines. A tree of at
\* most 200 lines is returned in full, without a summary line; a longer
\* tree is returned as its first 200 lines and one summary line that counts
\* the lines left out.
C21_TreeLineCeiling ==
    "build_tree_string" \in called =>
        /\ LineCount(out_tree_v1) <= 201
        /\ Len(FullTreeLines) = TotalLines
        /\ TotalLines <= 200 =>
              /\ out_tree_v1 = JoinLines(FullTreeLines)
              /\ LineCount(out_tree_v1) = TotalLines
              /\ ~Contains(out_tree_v1, "more entries")
        /\ TotalLines > 200 =>
              /\ LineCount(out_tree_v1) = 201
              /\ out_tree_v1 =
                    JoinLines(SubSeq(FullTreeLines, 1, 200)) \o "\n"
                        \o SummaryLine(TotalLines - 200)

\* A tree of 201 lines was rendered: 200 lines and the summary of one.
C21_Witness ==
    /\ "build_tree_string" \in called
    /\ TotalLines = 201
    /\ LineCount(out_tree_v1) = 201
    /\ EndsWith(out_tree_v1, "\n... and 1 more entries")

(***************************************************************************)
(* The order of the content mapping of fetch_repo_data, under Spec.        *)
(***************************************************************************)
\* The paths of the selected files of request r, in selection order.
SelectedPaths(r) ==
    [i \in 1..Len(selected_files[r]) |-> selected_files[r][i].path]

\* sub is a subsequence of seq: its elements are found in seq at strictly
\* increasing positions.
IsSubsequence(sub, seq) ==
    \E pos \in [1..Len(sub) -> 1..Len(seq)] :
        /\ \A i \in 1..Len(sub) : seq[pos[i]] = sub[i]
        /\ \A i, j \in 1..Len(sub) : i < j => pos[i] < pos[j]

\* C22: the keys of the content mapping are pairwise different and, in the
\* order the mapping is iterated in, form a subsequence of the sequence of
\* paths returned by rank_and_select_files, whichever fetches failed.
C22_ContentOrderIsSelectionOrder ==
    \A r \in Requests :
        LET keys == DictKeys(file_contents[r])
        IN  /\ \A i, j \in 1..Len(keys) : i # j => keys[i] # keys[j]
            /\ IsSubsequence(keys, SelectedPaths(r))

\* Of three selected files the second could not be fetched: the mapping
\* holds the first and the third, in that order.
C22_Witness ==
    \E r \in Requests :
        /\ fetch_result[r] = FetchReturned
        /\ Len(selected_files[r]) = 3
        /\ failed_downloads[r] = << SelectedPaths(r)[2] >>
        /\ DictKeys(file_contents[r]) =
              << SelectedPaths(r)[1], SelectedPaths(r)[3] >>

(***************************************************************************)
(* File sizes and the budget in fetch_repo_data, under Spec.               *)
(***************************************************************************)
\* The size the tree listing of request r gives for path.
ListedSize(r, path) ==
    LET i == CHOOSE i \in 1..Len(tree_items[r]) : tree_items[r][i].path = path
    IN  tree_items[r][i].size

\* C23: no entry larger than max_file_size_bytes is selected or fetched.
C23_OversizedFilesSkipped ==
    \A r \in Requests :
        /\ \A i \in 1..Len(selected_files[r]) :
              selected_files[r][i].size <= MAX_FILE_SIZE_BYTES
        /\ \A i \in 1..Len(RawCalls(r)) :
              ListedSize(r, RawCalls(r)[i].path) <= MAX_FILE_SIZE_BYTES

\* C27: the length of the rendered tree, the 2,000 characters reserved for
\* the metadata and the sizes of the selected files together stay within
\* settings.max_content_chars.
C27_ReservedBudgetHonoured ==
    \A r \in Requests :
        fetch_idx[r] >= 1 =>
            Len(directory_tree[r]) + METADATA_RESERVE
                + SumSizes(selected_files[r]) <= MAX_CONTENT_CHARS

\* The same for the listings in which no file alone exceeds the content
\* budget, and with the reserve counted once: the sizes of the selected
\* files stay within the content budget.
SelectedWithinContentBudget ==
    \A r \in Requests :
        (/\ fetch_idx[r] >= 1
         /\ \A i \in 1..Len(tree_items[r]) :
               tree_items[r][i].size <= content_budget[r]) =>
            /\ SumSizes(selected_files[r]) <= content_budget[r]
            /\ Len(directory_tree[r]) + METADATA_RESERVE
                  + SumSizes(selected_files[r]) <= MAX_CONTENT_CHARS

(***************************************************************************)
(* Maximality of the greedy selection (SpecSelect).                        *)
(***************************************************************************)
\* Positions of the eligible entries of the input that were not selected.
UnselectedEligibleIdx ==
    { i \in EligibleIdx :
        \A k \in 1..Len(out_selected) : out_selected[k] # in_files[i] }

\* C25: when rank_and_select_files returns, no eligible entry that was left
\* out would still fit: the total size of the selected entries plus the
\* size of any such entry exceeds the budget.
C25_SelectionIsMaximal ==
    Returned =>
        \A i \in UnselectedEligibleIdx :
            SumSizes(out_selected) + in_files[i].size > in_max_chars

\* A call that selected two entries which fill the budget exactly and left
\* an eligible entry out.
C25_Witness ==
    /\ Returned
    /\ Len(out_selected) = 2
    /\ SumSizes(out_selected) = in_max_chars
    /\ UnselectedEligibleIdx # {}

(***************************************************************************)
(* Excluded directories and the directory tree, under Spec.                *)
(***************************************************************************)
\* The lines of a text, split at the newlines.
RECURSIVE TextLinesFrom(_, _, _)
TextLinesFrom(text, i, cur) ==
    IF i > Len(text) THEN << cur >>
    ELSE IF CharAt(text, i) = "\n"
    THEN << cur >> \o TextLinesFrom(text, i + 1, "")
    ELSE TextLinesFrom(text, i + 1, cur \o CharAt(text, i))

TextLines(text) == IF text = "" THEN <<>> ELSE TextLinesFrom(text, 1, "")

\* The name a line of the directory tree shows: the line without its
\* indentation and without the slash that marks a directory.
NameOnLine(line) ==
    LET name == LStrip(line)
    IN  IF EndsWith(name, "/") THEN DropLast(name, 1) ELSE name

\* C26: the directory tree built from the listing has no line that names an
\* excluded directory: the entry of the directory is left out like all that
\* is beneath it.
C26_NoExcludedDirectoryLine ==
    \A r \in Requests :
        \A i \in 1..Len(TextLines(directory_tree[r])) :
            NameOnLine(TextLines(directory_tree[r])[i]) \notin EXCLUDED_DIRS

\* One half of it: nothing beneath an excluded directory is in the tree.
NothingBeneathExcludedDirectory ==
    \A r \in Requests :
        \A i \in 1..Len(tree_items[r]) :
            (\E dir \in EXCLUDED_DIRS :
                StartsWith(tree_items[r][i].path, dir \o "/")) =>
                ~Contains(directory_tree[r],
                          Filename(tree_items[r][i].path))

(***************************************************************************)
(* Two requests at once (SpecConcurrent).                                  *)
(***************************************************************************)
\* All that belongs to request r: its place in the handler, its listing,
\* tree, budget, selection, loop position, content mapping, failures, call
\* log, response, body, repository and fetch result.
RequestState(r) ==
    << pc[r], tree_items[r], directory_tree[r], content_budget[r],
       selected_files[r], fetch_idx[r], file_contents[r],
       failed_downloads[r], calls[r], response[r], request_body[r],
       repo_ref[r], fetch_result[r] >>

\* C24: concurrent requests share no mutable state. In every interleaving
\* of two requests, whenever anything of a request changes, the change is a
\* step of that request itself: the other request's steps leave its budget,
\* selection, content mapping and result alone, so each request goes
\* through the states it goes through when it runs alone.
C24_RequestsShareNoState ==
    [][\A r \in Requests :
          RequestState(r)' # RequestState(r) => StepOf(r)]_vars

\* What a request holds is what its own inputs give: the selection is that
\* of its own listing under its own budget, and the content mapping that
\* of its own fetches.
DeterminedByOwnInputs ==
    \A r \in Requests :
        /\ fetch_idx[r] >= 1 =>
              /\ directory_tree[r] =
                    build_directory_tree(AllPaths(tree_items[r]))
              /\ content_budget[r] = ContentBudget(directory_tree[r])
              /\ selected_files[r] =
                    rank_and_select_files(FileItems(tree_items[r]),
                                          content_budget[r])
        /\ DictKeys(file_contents[r]) = FetchedPaths(r)
        /\ IsSubsequence(failed_downloads[r], SelectedPaths(r))

\* Both requests are in their fetch loops at once, each with a file still
\* to fetch, and the first has fetched one file while the second has failed
\* to fetch one.
C24_Witness ==
    /\ pc[1] = "fetch"
    /\ pc[2] = "fetch"
    /\ Len(selected_files[1]) = 2
    /\ Len(selected_files[2]) = 2
    /\ Len(file_contents[1]) = 1
    /\ file_contents[2] = <<>>
    /\ Len(failed_downloads[2]) = 1

=============================================================================
